---- MODULE Spec2Model ----
(***************************************************************************)
(* Model of the chunked voxel world of src/src/world.rs: Chunk (dense cell *)
(* array with per-voxel neighbour masks and a lazily rebuilt instance      *)
(* list), World (map from chunk key to Chunk, shared dirty flag, cached    *)
(* world mesh), BlockRayTracer (the grid walk of cube_looking_at) and the  *)
(* helpers they are built on.                                              *)
(*                                                                         *)
(* Representation.  The cell array Box<[Option<ChunkCube>; 16*256*16]> is  *)
(* a function from the occupied indices to their ChunkCube: an index       *)
(* outside DOMAIN cubes is a None slot.  A position is <<x, y, z>>, a      *)
(* chunk key / start is <<x, z>>.  Cube centres are the integer-valued     *)
(* floats every caller passes, so they are kept as integers.  A panic      *)
(* stops the program: it is recorded in the variable panic and no action   *)
(* is enabled afterwards; the cells keep what was written before it.       *)
(***************************************************************************)
EXTENDS Integers, Sequences, FiniteSets, TLC

VARIABLES chunks, world_mesh, world_dirty, panic, last, tracer,
          display, mirrored, camera, engine

\* The state of src/src/world.rs.
world == <<chunks, world_mesh, world_dirty, tracer>>

\* The state of display.rs, buffers.rs, camera.rs and of the engine's input
\* handling.
frontend == <<display, mirrored, camera, engine>>

vars == <<chunks, world_mesh, world_dirty, panic, last, tracer,
          display, mirrored, camera, engine>>

----------------------------------------------------------------------------
(* Program constants *)

Y_STRIDE == 16

Z_STRIDE == 16 * 256

CUBES_LEN == 16 * 256 * 16

TOP == 0

BOTTOM == 1

EAST == 2

WEST == 3

NORTH == 4

SOUTH == 5

----------------------------------------------------------------------------
(* Bounds of the model *)

\* Number of cells of SiteList that the edits of one chunk address.
NumSites == 5

\* Number of cells of CullSiteList that the edits around the enclosed cell
\* address.
NumCullSites == 2

\* Number of positions of WorldSiteList that the edits of the world address.
NumWorldSites == 2

\* World x and z coordinates of a single edit range over -KeyRange..KeyRange.
KeyRange == 33

\* create_chunk is called with heights 0 and MaxFillH (and with the full
\* height 256).
MaxFillH == 3

\* Number of voxels of TraceVoxelList a traced world draws from.
NumTraceVoxels == 3

\* Cells a trace may visit before the model stops following it.
MaxPath == 14

\* Number of cells of AroundSiteList a chunk searched by cubes_around draws
\* from.
NumAroundSites == 4

\* Swapchain recreations the model follows.
MaxSwapchains == 2

\* A MirroredBuffer is constructed with 0 to MaxMirrors instances.
MaxMirrors == 3

\* The camera is followed through yaws of up to MaxTurns quarter turns to
\* either side.
MaxTurns == 1

\* The colours a cube is given.
Colours == {1, 2}

----------------------------------------------------------------------------
(* Integer helpers with Rust's semantics *)

Abs(a) == IF a < 0 THEN -a ELSE a

\* Rust's `/` on i32: quotient truncated toward zero.
TruncDiv(a, b) ==
    IF (a >= 0) = (b > 0) THEN Abs(a) \div Abs(b) ELSE -(Abs(a) \div Abs(b))

\* Rust's `%` on i32: remainder with the sign of the dividend.
TruncRem(a, b) == a - b * TruncDiv(a, b)

\* i32::div_euclid, as in core: q = self / rhs, corrected when the
\* remainder is negative.
div_euclid_trunc(a, b) == TruncDiv(a, b)

div_euclid(a, b) ==
    LET q == TruncDiv(a, b)
    IN  IF TruncRem(a, b) < 0
        THEN (IF b > 0 THEN q - 1 ELSE q + 1)
        ELSE q

\* `as usize` of an i32: a negative value wraps to the top of the usize
\* range, far beyond any array length; 2^30 stands for that range here.
AsUsize(v) == IF v >= 0 THEN v ELSE 2^30 + v

\* i ^ 1 on a side number.
Xor1(i) == IF i % 2 = 0 THEN i + 1 ELSE i - 1

Add3(p, d) == <<p[1] + d[1], p[2] + d[2], p[3] + d[3]>>

Sub3(p, d) == <<p[1] - d[1], p[2] - d[2], p[3] - d[3]>>

----------------------------------------------------------------------------
(* Free helper functions of world.rs *)

index_to_chunk_pos_square(i) == <<i % 16, (i \div 16) % 16, (i \div 16) \div 16>>

index_to_chunk_pos(i) == <<i % 16, (i \div 16) % 256, (i \div 16) \div 256>>

chunk_pos_to_index(chunk_pos) ==
    AsUsize(chunk_pos[1] + chunk_pos[2] * Y_STRIDE + chunk_pos[3] * Z_STRIDE)

chunk_id_unscaled(pos) == <<div_euclid(pos[1], 16), div_euclid(pos[3], 16)>>

chunk_id(pos) == <<div_euclid(pos[1], 16) * 16, div_euclid(pos[3], 16) * 16>>

----------------------------------------------------------------------------
(* Chunk *)

AllSides(b) == [i \in 0..5 |-> b]

NewChunkCube(color) == [color |-> color, sides_present |-> AllSides(FALSE)]

\* InstancesMesh::new: no instances; MirroredBuffer::from_iter leaves the
\* instance buffer marked dirty.
NewMesh == [instances |-> <<>>, buf_dirty |-> TRUE]

\* Chunk::new (the write to the shared world flag is done by the caller
\* of this operator, see the actions).
NewChunk(start) ==
    [start |-> start, cubes |-> <<>>, mesh |-> NewMesh, dirty |-> TRUE]

in_relative_chunk_pos(chunk, pos) ==
    Sub3(pos, <<chunk.start[1], 0, chunk.start[2]>>)

NoPos == <<>>

in_chunk_pos_no_x_max(chunk, pos) ==
    LET chunk_pos == in_relative_chunk_pos(chunk, pos)
    IN  IF /\ chunk_pos[1] >= 0
           /\ chunk_pos[2] >= 0 /\ chunk_pos[2] < 256
           /\ chunk_pos[3] >= 0 /\ chunk_pos[3] < 16
        THEN chunk_pos
        ELSE NoPos

\* Chunk::in_chunk_pos: Some(chunk_pos) or None (NoPos).
in_chunk_pos(chunk, pos) ==
    LET chunk_pos == in_relative_chunk_pos(chunk, pos)
    IN  IF /\ chunk_pos[1] >= 0 /\ chunk_pos[1] < 16
           /\ chunk_pos[2] >= 0 /\ chunk_pos[2] < 256
           /\ chunk_pos[3] >= 0 /\ chunk_pos[3] < 16
        THEN chunk_pos
        ELSE NoPos

around_cubes(chunk_pos) ==
    [i \in 0..5 |->
        CASE i = TOP    -> Add3(chunk_pos, <<0, 1, 0>>)
          [] i = BOTTOM -> Sub3(chunk_pos, <<0, 1, 0>>)
          [] i = EAST   -> Add3(chunk_pos, <<1, 0, 0>>)
          [] i = WEST   -> Sub3(chunk_pos, <<1, 0, 0>>)
          [] i = NORTH  -> Add3(chunk_pos, <<0, 0, 1>>)
          [] i = SOUTH  -> Sub3(chunk_pos, <<0, 0, 1>>)]

\* The range test of update_surroundings as written: the upper bound of y
\* is never tested (the fourth conjunct tests x again).
SurroundInRange(cube_pos) ==
    /\ cube_pos[1] >= 0 /\ cube_pos[1] < 16
    /\ cube_pos[2] >= 0 /\ cube_pos[1] < 256
    /\ cube_pos[3] >= 0 /\ cube_pos[3] < 16

SetOtherSideAlwaysTrue(cubes, oi, i, cube_present) ==
    [cubes EXCEPT ![oi].sides_present[Xor1(i)] = TRUE]

SetOtherSideSameBit(cubes, oi, i, cube_present) ==
    [cubes EXCEPT ![oi].sides_present[i] = cube_present]

SetOtherSideFlipped(cubes, oi, i, cube_present) ==
    [cubes EXCEPT ![oi].sides_present[Xor1(i)] = ~@]

\* other_cube.sides_present[i ^ 1] = cube_present, on the cube at index oi.
SetOtherSide(cubes, oi, i, cube_present) ==
    [cubes EXCEPT ![oi].sides_present[Xor1(i)] = cube_present]

\* The for loop of update_surroundings from side i on.  Returns the cells,
\* the bits computed so far and the panic that ended the loop, if any.
RECURSIVE SurroundLoop(_, _, _, _, _)
SurroundLoop(cubes, chunk_pos, cube_present, i, present_result) ==
    IF i > 5
    THEN [cubes |-> cubes, present_result |-> present_result, panic |-> "none"]
    ELSE LET cube_pos == around_cubes(chunk_pos)[i]
         IN  IF SurroundInRange(cube_pos)
             THEN LET oi == chunk_pos_to_index(cube_pos)
                  IN  IF oi >= CUBES_LEN
                      THEN [cubes |-> cubes, present_result |-> present_result,
                            panic |-> "index_out_of_bounds"]
                      ELSE IF oi \in DOMAIN cubes
                      THEN SurroundLoop(
                              SetOtherSide(cubes, oi, i, cube_present),
                              chunk_pos, cube_present, i + 1,
                              [present_result EXCEPT ![i] = TRUE])
                      ELSE SurroundLoop(cubes, chunk_pos, cube_present, i + 1,
                              [present_result EXCEPT ![i] = FALSE])
             ELSE SurroundLoop(cubes, chunk_pos, cube_present, i + 1,
                      [present_result EXCEPT ![i] = FALSE])

\* Chunk::update_surroundings on the cell array: [cubes, panic].
update_surroundings(cubes, chunk_pos) ==
    LET index == chunk_pos_to_index(chunk_pos)
    IN  IF ~(index < CUBES_LEN)
        THEN [cubes |-> cubes, panic |-> "assert"]
        ELSE LET r == SurroundLoop(cubes, chunk_pos, index \in DOMAIN cubes, 0,
                                   AllSides(FALSE))
             IN  IF r.panic # "none"
                 THEN [cubes |-> r.cubes, panic |-> r.panic]
                 ELSE IF index \in DOMAIN r.cubes
                 THEN [cubes |-> [r.cubes EXCEPT ![index].sides_present = r.present_result],
                       panic |-> "none"]
                 ELSE [cubes |-> r.cubes, panic |-> "none"]

\* cubes[index] = Some(cube): the slot becomes occupied.
SetCube(cubes, index, cube) ==
    [j \in DOMAIN cubes \cup {index} |-> IF j = index THEN cube ELSE cubes[j]]

\* cubes[index] = None: the slot becomes empty.
ClearCube(cubes, index) == [j \in DOMAIN cubes \ {index} |-> cubes[j]]

MarkDirtyChunkOnly(chunk, cubes) ==
    [chunk |-> [chunk EXCEPT !.cubes = cubes, !.dirty = TRUE],
     panic |-> "none", set_world |-> FALSE]

\* self.dirty = true; self.world_dirty_ref.set(true); at the end of push_cube
\* and remove_cube, on the chunk with its updated cells.
MarkDirty(chunk, cubes) ==
    [chunk |-> [chunk EXCEPT !.cubes = cubes, !.dirty = TRUE],
     panic |-> "none", set_world |-> TRUE]

\* Chunk::push_cube.  Returns the chunk, the panic (if any) and whether the
\* shared world flag was set.
push_cube(chunk, position, color) ==
    LET chunk_position == in_chunk_pos(chunk, position)
    IN  IF chunk_position = NoPos
        THEN [chunk |-> chunk, panic |-> "unwrap_none", set_world |-> FALSE]
        ELSE LET index == chunk_pos_to_index(chunk_position)
             IN  IF index >= CUBES_LEN
                 THEN [chunk |-> chunk, panic |-> "index_out_of_bounds",
                       set_world |-> FALSE]
                 ELSE LET u == update_surroundings(
                                  SetCube(chunk.cubes, index, NewChunkCube(color)),
                                  chunk_position)
                      IN  IF u.panic # "none"
                          THEN [chunk |-> [chunk EXCEPT !.cubes = u.cubes],
                                panic |-> u.panic, set_world |-> FALSE]
                          ELSE MarkDirty(chunk, u.cubes)

\* Chunk::remove_cube, with the same result shape.
remove_cube(chunk, pos) ==
    LET chunk_position == in_chunk_pos(chunk, pos)
    IN  IF chunk_position = NoPos
        THEN [chunk |-> chunk, panic |-> "unwrap_none", set_world |-> FALSE]
        ELSE LET index == chunk_pos_to_index(chunk_position)
             IN  IF index >= CUBES_LEN
                 THEN [chunk |-> chunk, panic |-> "index_out_of_bounds",
                       set_world |-> FALSE]
                 ELSE LET u == update_surroundings(ClearCube(chunk.cubes, index),
                                                   chunk_position)
                      IN  IF u.panic # "none"
                          THEN [chunk |-> [chunk EXCEPT !.cubes = u.cubes],
                                panic |-> u.panic, set_world |-> FALSE]
                          ELSE MarkDirty(chunk, u.cubes)

\* Cube::to_instance of the cube at chunk position chunk_pos.
ToInstance(chunk, chunk_pos, cube) ==
    [color |-> cube.color,
     translation |-> Add3(chunk_pos, <<chunk.start[1], 0, chunk.start[2]>>)]

DrawnAlways(cube) == TRUE

\* if cube.sides_present != [true; 6]
Drawn(cube) == cube.sides_present # AllSides(TRUE)

\* The loop of Chunk::mesh over the slots lo..hi of the array in index
\* order; S holds the occupied indices of that range (an empty slot adds
\* nothing, so a range without occupied slots is skipped as a whole).
RECURSIVE MeshLoop(_, _, _, _)
MeshLoop(chunk, S, lo, hi) ==
    IF S = {}
    THEN <<>>
    ELSE IF lo = hi
    THEN (IF Drawn(chunk.cubes[lo])
          THEN <<ToInstance(chunk, index_to_chunk_pos(lo), chunk.cubes[lo])>>
          ELSE <<>>)
    ELSE LET mid == (lo + hi) \div 2
         IN  MeshLoop(chunk, {i \in S : i <= mid}, lo, mid)
                 \o MeshLoop(chunk, {i \in S : i > mid}, mid + 1, hi)

\* The instance list Chunk::mesh builds.
BuildInstances(chunk) == MeshLoop(chunk, DOMAIN chunk.cubes, 0, CUBES_LEN - 1)

mesh_always(chunk) ==
    [chunk EXCEPT !.mesh = [instances |-> BuildInstances(chunk), buf_dirty |-> TRUE],
                  !.dirty = FALSE]

mesh_keep_dirty(chunk) ==
    IF chunk.dirty
    THEN [chunk EXCEPT !.mesh = [instances |-> BuildInstances(chunk), buf_dirty |-> TRUE]]
    ELSE chunk

\* Chunk::mesh: rebuilds the instance list only when the chunk is dirty;
\* rebuild_instance_buffer marks the instance buffer dirty.
mesh(chunk) ==
    IF chunk.dirty
    THEN [chunk EXCEPT !.mesh = [instances |-> BuildInstances(chunk), buf_dirty |-> TRUE],
                       !.dirty = FALSE]
    ELSE chunk

\* MirroredBuffer::update_buffers on a mesh's instance buffer.
update_buffers(m) == [m EXCEPT !.buf_dirty = FALSE]

----------------------------------------------------------------------------
(* World *)

\* HashMap with one more entry / one entry replaced.
Insert(map, key, chunk) ==
    [k \in DOMAIN map \cup {key} |-> IF k = key THEN chunk ELSE map[k]]

\* entry(chunk_id).or_insert_with(|| Chunk::new(..)): the resident chunk or
\* a new one.
EntryOrInsert(map, key) == IF key \in DOMAIN map THEN map[key] ELSE NewChunk(key)

\* The orders in which HashMap::values_mut may yield the keys in S.
Orders(S) ==
    {o \in [1..Cardinality(S) -> S] : \A i, j \in DOMAIN o : i # j => o[i] # o[j]}

\* extend_mesh over the chunks in the order `order`, each after chunk.mesh().
RECURSIVE ExtendAll(_, _, _)
ExtendAll(map, order, acc) ==
    IF order = <<>>
    THEN acc
    ELSE ExtendAll(map, Tail(order), acc \o mesh(map[Head(order)]).mesh.instances)

\* The three nested loops of create_chunk, innermost first.  Each takes the
\* result so far, [chunk, panic], and stops at the first panic.
RECURSIVE FillZ(_, _, _, _, _)
FillZ(r, x, y, z, color) ==
    IF r.panic # "none" \/ z >= r.chunk.start[2] + 16
    THEN r
    ELSE LET p == push_cube(r.chunk, <<x, y, z>>, color)
         IN  FillZ([chunk |-> p.chunk, panic |-> p.panic], x, y, z + 1, color)

RECURSIVE FillY(_, _, _, _, _)
FillY(r, x, y, start_y, color) ==
    IF r.panic # "none" \/ y >= start_y
    THEN r
    ELSE FillY(FillZ(r, x, y, r.chunk.start[2], color), x, y + 1, start_y, color)

RECURSIVE FillX(_, _, _, _)
FillX(r, x, start_y, color) ==
    IF r.panic # "none" \/ x >= r.chunk.start[1] + 16
    THEN r
    ELSE FillX(FillY(r, x, 0, start_y, color), x + 1, start_y, color)

\* for x in start_x..(start_x + 16) { for y in 0..start_y { for z in .. } }
FillLoop(chunk, start_y, color) ==
    FillX([chunk |-> chunk, panic |-> "none"], chunk.start[1], start_y, color)

\* The keys, heights and colours create_chunk is called with in SpecFill,
\* and what its loops leave for each of them (computed once).
FillKeys == {<<0, 0>>, <<-16, -16>>}

FillHeights == {0, MaxFillH}

FillColours == {1}

RECURSIVE FillTable(_)
FillTable(S) ==
    LET a == CHOOSE a \in S : TRUE
        r == a :> FillLoop(NewChunk(a[1]), a[2], a[3])
    IN  IF S = {a} THEN r ELSE r @@ FillTable(S \ {a})

FillResults == FillTable(FillKeys \X FillHeights \X FillColours)

\* let mut chunk = Chunk::new(..) and the loops of create_chunk.
create_chunk_loops(key, start_y, color) ==
    IF <<key, start_y, color>> \in DOMAIN FillResults
    THEN FillResults[<<key, start_y, color>>]
    ELSE FillLoop(NewChunk(key), start_y, color)

InsertWarnsAlways(map, key) == 1

\* if self.chunks.insert(chunk_id, chunk).is_some() { eprintln!("WARN: ..") }:
\* the number of WARN lines written when the chunk is inserted at key.
InsertWarns(map, key) == IF key \in DOMAIN map THEN 1 ELSE 0

----------------------------------------------------------------------------
(* The record of the last edit, kept for the properties *)

NoCubes == [some |-> FALSE, cubes |-> <<>>]

SomeCubes(c) == [some |-> TRUE, cubes |-> c]

NoEdit ==
    [op |-> "none", key |-> <<0, 0>>, pos |-> <<0, 0, 0>>, color |-> 0,
     pre |-> <<>>, orig |-> NoCubes, rebuilt |-> {},
     resident |-> FALSE, warnings |-> 0]

\* orig: when a remove directly follows a push at the same position of the
\* same chunk, the cells before that push.  resident: the chunk at key was
\* resident when the call was made.  warnings: the WARN lines the call wrote
\* to stderr.
Edit(op, key, pos, color, pre) ==
    [op |-> op, key |-> key, pos |-> pos, color |-> color, pre |-> pre,
     orig |-> IF op = "remove" /\ last.op = "push" /\ last.key = key /\ last.pos = pos
              THEN SomeCubes(last.pre)
              ELSE NoCubes,
     rebuilt |-> {},
     resident |-> key \in DOMAIN chunks, warnings |-> 0]

\* A mesh call: rebuilt holds the keys of the chunks it rebuilt.
MeshCall(op, key, rebuilt) == [NoEdit EXCEPT !.op = op, !.key = key, !.rebuilt = rebuilt]

----------------------------------------------------------------------------
(* Inputs *)

\* Cells of the chunk at <<0, 0>>, the first NumSites of which are edited:
\* a cell of layer 254, its neighbours above (top layer), to the east and to
\* the north, the cell of layer 0 whose index is the one computed for the
\* position above the top-layer cell, then the remaining neighbours.
SiteList ==
    << <<1, 254, 14>>, <<1, 255, 14>>, <<1, 0, 15>>, <<2, 254, 14>>,
       <<1, 254, 15>>, <<1, 253, 14>>, <<0, 254, 14>>, <<1, 254, 13>> >>

Sites == {SiteList[i] : i \in 1..NumSites}

\* The top-layer cell of the last z row.
TopCorner == <<1, 255, 15>>

\* Positions outside the footprint of the chunk at <<0, 0>>, one per face.
OutsideSites ==
    {<<1, 256, 14>>, <<1, -1, 14>>, <<-1, 254, 14>>, <<16, 254, 14>>,
     <<1, 254, -1>>, <<1, 254, 16>>}

ChunkSites == Sites \cup {TopCorner} \cup OutsideSites

ChunkKey == <<0, 0>>

----------------------------------------------------------------------------
(* BlockRayTracer *)

(* The f32 values of the tracer.  A time along the ray is kept as a kind   *)
(* (finite, +infinity, NaN) and, when finite, its count of quarter steps:  *)
(* the rays traced here have components of one magnitude, so every finite  *)
(* dt is the same float and two times compare as their counts do.  An      *)
(* origin coordinate is an integer count of quarters, which f32 holds      *)
(* exactly, and so is max_radius.                                          *)
Quarter == 4

Fin(n) == [kind |-> "fin", n |-> n]

Infinity == [kind |-> "inf", n |-> 0]

NaN == [kind |-> "nan", n |-> 0]

\* a < b on f32: false as soon as one side is NaN.
FLess(a, b) ==
    \/ a.kind = "fin" /\ b.kind = "fin" /\ a.n < b.n
    \/ a.kind = "fin" /\ b.kind = "inf"

\* a + b on f32, for a and b that are not -infinity.
FAdd(a, b) ==
    IF a.kind = "nan" \/ b.kind = "nan" THEN NaN
    ELSE IF a.kind = "inf" \/ b.kind = "inf" THEN Infinity
    ELSE Fin(a.n + b.n)

\* q * dt on f32, q a count of quarters from 0 to 4.
FMulQuarters(q, dt) ==
    IF dt.kind = "nan" THEN NaN
    ELSE IF dt.kind = "inf" THEN (IF q = 0 THEN NaN ELSE Infinity)
    ELSE Fin((q * dt.n) \div Quarter)

\* f32::round on a count of quarters: to the nearest integer, a half away
\* from zero; `as i32` then keeps the value.
round(h) ==
    IF h >= 0 THEN (h + 2) \div Quarter ELSE 0 - ((2 - h) \div Quarter)

\* f32::ceil on a count of quarters, then `as i32`.
ceil_trunc(q) == TruncDiv(q, Quarter)

ceil(q) == 0 - ((0 - q) \div Quarter)

\* A direction is the vector v of components in -1..1 times a scale:
\* "unit" (v itself), "huge" (v * 1e20) or "tiny" (v * 1e-30).
\* InnerSpace::normalize is v * (1 / sqrt(v . v)) on f32.  The squares of
\* a huge vector overflow to +infinity and the factor is 0; the squares of
\* a tiny vector underflow to 0 and the factor is +infinity, as it is for
\* the zero vector; 0 * infinity is NaN.  The result is given per
\* component as its class.
normalize(direction) ==
    [i \in 1..3 |->
        LET c == direction.v[i]
        IN  IF direction.v = <<0, 0, 0>> THEN "nan"
            ELSE IF direction.scale = "huge" THEN "zero"
            ELSE IF direction.scale = "tiny"
                 THEN (IF c = 0 THEN "nan" ELSE IF c > 0 THEN "pinf" ELSE "ninf")
            ELSE (IF c = 0 THEN "zero" ELSE IF c > 0 THEN "pos" ELSE "neg")]

\* 1. / direction.x.abs()
dt_of(class) ==
    IF class = "zero" THEN Infinity
    ELSE IF class = "nan" THEN NaN
    ELSE IF class \in {"pinf", "ninf"} THEN Fin(0)
    ELSE Fin(Quarter)

\* inc_x, inc_y, inc_z of BlockRayTracer::new: NaN is neither == 0. nor
\* < 0. and takes the last branch.
inc_of(class) ==
    IF class = "zero" THEN 0
    ELSE IF class \in {"neg", "ninf"} THEN -1
    ELSE 1

\* t_next_x, t_next_y, t_next_z of BlockRayTracer::new for the origin
\* coordinate h (in quarters).
t_next_of(class, h) ==
    IF class = "zero" THEN Infinity
    ELSE IF class \in {"neg", "ninf"}
         THEN FMulQuarters(h + 2 - Quarter * round(h), dt_of(class))
    ELSE FMulQuarters(Quarter * round(h) + 2 - h, dt_of(class))

NoLookAt == [some |-> FALSE, cube |-> <<0, 0, 0>>, direction |-> <<0, 0, 0>>]

LookAt(cube, direction) == [some |-> TRUE, cube |-> cube, direction |-> direction]

\* No trace has been started.
NoTrace ==
    [pc |-> "idle", origin |-> <<0, 0, 0>>,
     direction |-> [v |-> <<0, 0, 0>>, scale |-> "unit"], max_radius |-> 0,
     dt |-> <<NaN, NaN, NaN>>, current_chunk |-> <<0, 0>>, chunk_inc_dir |-> <<0, 0>>,
     last_cube |-> <<0, 0, 0>>, current_cube |-> <<0, 0, 0>>,
     origin_cube_i32 |-> <<0, 0, 0>>, cube_inc_dir |-> <<0, 0, 0>>,
     t_next_cube |-> <<NaN, NaN, NaN>>, max_radius_i32 |-> 0, path |-> <<>>,
     result_cube |-> NoLookAt]

new_retaining(origin, direction, max_radius) ==
    LET class == normalize(direction)
        origin_cube_i32 == [i \in 1..3 |-> round(origin[i])]
        cube_inc_dir == [i \in 1..3 |-> inc_of(class[i])]
    IN  [pc |-> "running", origin |-> origin, direction |-> direction,
         max_radius |-> max_radius,
         dt |-> [i \in 1..3 |-> dt_of(class[i])],
         current_chunk |-> chunk_id(origin_cube_i32),
         chunk_inc_dir |-> <<cube_inc_dir[1] * 16, cube_inc_dir[3] * 16>>,
         last_cube |-> origin_cube_i32, current_cube |-> origin_cube_i32,
         origin_cube_i32 |-> origin_cube_i32, cube_inc_dir |-> cube_inc_dir,
         t_next_cube |-> [i \in 1..3 |-> t_next_of(class[i], origin[i])],
         max_radius_i32 |-> ceil(max_radius), path |-> tracer.path,
         result_cube |-> NoLookAt]

\* BlockRayTracer::new.  The fields origin, direction, max_radius keep the
\* arguments.
new(origin, direction, max_radius) ==
    LET class == normalize(direction)
        origin_cube_i32 == [i \in 1..3 |-> round(origin[i])]
        cube_inc_dir == [i \in 1..3 |-> inc_of(class[i])]
    IN  [pc |-> "running", origin |-> origin, direction |-> direction,
         max_radius |-> max_radius,
         dt |-> [i \in 1..3 |-> dt_of(class[i])],
         current_chunk |-> chunk_id(origin_cube_i32),
         chunk_inc_dir |-> <<cube_inc_dir[1] * 16, cube_inc_dir[3] * 16>>,
         last_cube |-> origin_cube_i32, current_cube |-> origin_cube_i32,
         origin_cube_i32 |-> origin_cube_i32, cube_inc_dir |-> cube_inc_dir,
         t_next_cube |-> [i \in 1..3 |-> t_next_of(class[i], origin[i])],
         max_radius_i32 |-> ceil(max_radius), path |-> <<>>,
         result_cube |-> NoLookAt]

\* i32::rem_euclid, as in core: r = self % rhs, plus |rhs| when negative.
rem_euclid(a, b) ==
    LET r == TruncRem(a, b) IN IF r < 0 THEN r + Abs(b) ELSE r

chunk_change_trunc(dir, val) ==
    \/ dir = -1 /\ TruncRem(val, 16) = 15
    \/ dir = 1 /\ TruncRem(val, 16) = 0

\* chunk_change of move_to_next_cube
chunk_change(dir, val) ==
    \/ dir = -1 /\ rem_euclid(val, 16) = 15
    \/ dir = 1 /\ rem_euclid(val, 16) = 0

I32_MAX == 2147483647

\* The largest i32 whose square is at most I32_MAX.
I32_ROOT == 46340

\* r * r on i32 with wrapping: r * r itself when it fits, and r * r - 2^32
\* for I32_ROOT < |r| < 2^16, written so that no intermediate value leaves
\* the i32 range: (I32_ROOT + 1)^2 = 2^31 + 4633.
wrapping_square(r) ==
    IF Abs(r) <= I32_ROOT THEN r * r
    ELSE (Abs(r) - (I32_ROOT + 1)) * (Abs(r) + (I32_ROOT + 1)) + 4633 - I32_MAX - 1

magnitude2(v) == v[1] * v[1] + v[2] * v[2] + v[3] * v[3]

step_axis_x_inc(t, axis) ==
    [t EXCEPT !.current_cube[axis] = @ + t.cube_inc_dir[1],
              !.t_next_cube[axis] = FAdd(@, t.dt[axis])]

\* current_cube.a += cube_inc_dir.a; t_next_cube.a += dt.a
step_axis(t, axis) ==
    [t EXCEPT !.current_cube[axis] = @ + t.cube_inc_dir[axis],
              !.t_next_cube[axis] = FAdd(@, t.dt[axis])]

next_axis_x_first(t) ==
    IF ~FLess(t.t_next_cube[2], t.t_next_cube[1]) /\ ~FLess(t.t_next_cube[3], t.t_next_cube[1])
    THEN 1
    ELSE (IF ~FLess(t.t_next_cube[2], t.t_next_cube[3]) THEN 3 ELSE 2)

\* The axis move_to_next_cube steps along: 1 (x), 2 (y) or 3 (z).
next_axis(t) ==
    IF FLess(t.t_next_cube[1], t.t_next_cube[2])
    THEN (IF FLess(t.t_next_cube[1], t.t_next_cube[3]) THEN 1 ELSE 3)
    ELSE (IF FLess(t.t_next_cube[2], t.t_next_cube[3]) THEN 2 ELSE 3)

\* BlockRayTracer::move_to_next_cube: the tracer it leaves and what it
\* returns: "ChunkChange" with next_chunk, "ExceededRadius", "None", or
\* "overflow" when max_radius_i32 * max_radius_i32 panics.  overflow_checks
\* is the build's setting for integer overflow: panic when on, wrap when
\* off.
move_to_next_cube(tr, overflow_checks) ==
    LET t == [tr EXCEPT !.last_cube = tr.current_cube]
        axis == next_axis(t)
        s == step_axis(t, axis)
        next_chunk == IF axis = 1
                      THEN <<s.current_chunk[1] + s.chunk_inc_dir[1], s.current_chunk[2]>>
                      ELSE <<s.current_chunk[1], s.current_chunk[2] + s.chunk_inc_dir[2]>>
        distance == magnitude2(Sub3(s.current_cube, s.origin_cube_i32))
    IN  IF axis # 2 /\ chunk_change(s.cube_inc_dir[axis], s.current_cube[axis])
        THEN [t |-> s, r |-> "ChunkChange", next_chunk |-> next_chunk]
        ELSE IF Abs(s.max_radius_i32) > I32_ROOT /\ overflow_checks
        THEN [t |-> s, r |-> "overflow", next_chunk |-> s.current_chunk]
        ELSE IF distance > wrapping_square(s.max_radius_i32)
        THEN [t |-> s, r |-> "ExceededRadius", next_chunk |-> s.current_chunk]
        ELSE [t |-> s, r |-> "None", next_chunk |-> s.current_chunk]

block_found_last(chunk, t) ==
    LET chunk_pos == in_chunk_pos(chunk, t.last_cube)
    IN  chunk_pos # NoPos /\ chunk_pos_to_index(chunk_pos) \in DOMAIN chunk.cubes

\* The test of trace_chunk: in_chunk_pos(current_cube) is Some and the cell
\* at its index is occupied.
block_found(chunk, t) ==
    LET chunk_pos == in_chunk_pos(chunk, t.current_cube)
    IN  chunk_pos # NoPos /\ chunk_pos_to_index(chunk_pos) \in DOMAIN chunk.cubes

\* The direction of BlockFound: last_cube - current_cube.
incoming(t) == Sub3(t.last_cube, t.current_cube)

\* One iteration of the loop of trace_chunk (the current chunk is resident)
\* or of trace_no_chunk, and what BlockRayTracer::run does with a returned
\* value: the tracer it leaves and the panic raised, if any.
trace_iteration(map, tr, overflow_checks) ==
    LET t == [tr EXCEPT !.path = Append(@, tr.current_cube)]
        m == move_to_next_cube(t, overflow_checks)
    IN  IF t.current_chunk \in DOMAIN map /\ block_found(map[t.current_chunk], t)
        THEN [t |-> [t EXCEPT !.pc = "done",
                              !.result_cube = LookAt(t.current_cube, incoming(t))],
              panic |-> "none"]
        ELSE IF m.r = "ChunkChange"
        THEN [t |-> [m.t EXCEPT !.current_chunk = m.next_chunk], panic |-> "none"]
        ELSE IF m.r = "ExceededRadius"
        THEN [t |-> [m.t EXCEPT !.pc = "done", !.result_cube = NoLookAt],
              panic |-> "none"]
        ELSE IF m.r = "overflow"
        THEN [t |-> m.t, panic |-> "overflow"]
        ELSE [t |-> m.t, panic |-> "none"]

----------------------------------------------------------------------------
(* Display *)

\* Display::new.  window_empty: the window's inner size has a zero width or
\* height (is_empty); previous_frame_end: the Option is Some; swapchain: the
\* number of the swapchain in use, one more for every recreation.
NewDisplay ==
    [window_empty |-> FALSE, previous_frame_end |-> TRUE,
     recreate_swapchain |-> FALSE, swapchain |-> 0, current_image_num |-> 0]

\* What Swapchain::recreate and acquire_next_image can answer, and
\* then_signal_fence_and_flush.
RecreateOutcomes == {"Ok", "ImageExtentNotSupported", "Err"}

AcquireOutcomes ==
    [r : {"Ok"}, image_num : 0..1, suboptimal : BOOLEAN]
        \cup [r : {"OutOfDate", "Err"}, image_num : {0}, suboptimal : {FALSE}]

FlushOutcomes == {"Ok", "OutOfDate", "Err"}

\* Display::resize
resize(d) == [d EXCEPT !.recreate_swapchain = TRUE]

\* Display::recreate_swapchains: [display, panic].
recreate_swapchains(d, recreate) ==
    CASE recreate = "Ok" ->
             [display |-> [d EXCEPT !.swapchain = @ + 1], panic |-> "none"]
      [] recreate = "ImageExtentNotSupported" -> [display |-> d, panic |-> "none"]
      [] OTHER -> [display |-> d, panic |-> "recreate"]

begin_frame_keeping_future(d, recreate, acquire) ==
    IF d.window_empty
    THEN [display |-> d, result |-> "EmptyDisplay", panic |-> "none"]
    ELSE IF ~d.previous_frame_end
    THEN [display |-> d, result |-> "MultipleBeginFrame", panic |-> "none"]
    ELSE LET r == IF d.recreate_swapchain
                  THEN recreate_swapchains(d, recreate)
                  ELSE [display |-> d, panic |-> "none"]
             c == [r.display EXCEPT !.recreate_swapchain = FALSE]
         IN  IF r.panic # "none"
             THEN [display |-> r.display, result |-> "panic", panic |-> r.panic]
             ELSE CASE acquire.r = "Ok" ->
                      [display |-> [c EXCEPT
                                      !.recreate_swapchain = acquire.suboptimal,
                                      !.current_image_num = acquire.image_num],
                       result |-> "Ok", panic |-> "none"]
                    [] acquire.r = "OutOfDate" ->
                      [display |-> [c EXCEPT !.recreate_swapchain = TRUE],
                       result |-> "AcquireOutOfDate", panic |-> "none"]
                    [] OTHER ->
                      [display |-> c, result |-> "panic", panic |-> "acquire"]

\* Display::begin_frame with the answers of the swapchain: [display, result,
\* panic].  The future is taken out of previous_frame_end before the
\* swapchain is touched, and only end_frame puts one back.
begin_frame(d, recreate, acquire) ==
    IF d.window_empty
    THEN [display |-> d, result |-> "EmptyDisplay", panic |-> "none"]
    ELSE IF ~d.previous_frame_end
    THEN [display |-> d, result |-> "MultipleBeginFrame", panic |-> "none"]
    ELSE LET t == [d EXCEPT !.previous_frame_end = FALSE]
             r == IF t.recreate_swapchain
                  THEN recreate_swapchains(t, recreate)
                  ELSE [display |-> t, panic |-> "none"]
             c == [r.display EXCEPT !.recreate_swapchain = FALSE]
         IN  IF r.panic # "none"
             THEN [display |-> r.display, result |-> "panic", panic |-> r.panic]
             ELSE CASE acquire.r = "Ok" ->
                      [display |-> [c EXCEPT
                                      !.recreate_swapchain = acquire.suboptimal,
                                      !.current_image_num = acquire.image_num],
                       result |-> "Ok", panic |-> "none"]
                    [] acquire.r = "OutOfDate" ->
                      [display |-> [c EXCEPT !.recreate_swapchain = TRUE],
                       result |-> "AcquireOutOfDate", panic |-> "none"]
                    [] OTHER ->
                      [display |-> c, result |-> "panic", panic |-> "acquire"]

\* Display::end_frame with the answer of the flush.
end_frame(d, flush) ==
    CASE flush = "Ok" -> [d EXCEPT !.previous_frame_end = TRUE]
      [] flush = "OutOfDate" ->
             [d EXCEPT !.recreate_swapchain = TRUE, !.previous_frame_end = TRUE]
      [] OTHER -> [d EXCEPT !.previous_frame_end = TRUE]

----------------------------------------------------------------------------
(* MirroredBuffer *)

\* A MirroredBuffer: the number of instances asked for, buffers.len(), the
\* length of the data in the staging buffer, the index current_buffer and
\* the dirty flag.
Mirrored(instances, buffers, len, current_buffer, dirty) ==
    [instances |-> instances, buffers |-> buffers, len |-> len,
     current_buffer |-> current_buffer, dirty |-> dirty]

\* MirroredBuffer::from_iter on data of length len: [buffer, panic].
\* allocated: DeviceLocalBuffer::array and the staging chunk return Ok.
from_iter(instances, len, allocated) ==
    IF ~(instances > 0)
    THEN [buffer |-> Mirrored(instances, 0, len, 0, TRUE), panic |-> "assert"]
    ELSE IF ~allocated
    THEN [buffer |-> Mirrored(instances, 0, len, 0, TRUE), panic |-> "unwrap"]
    ELSE [buffer |-> Mirrored(instances, IF len > 0 THEN instances ELSE 0, len, 0, TRUE),
          panic |-> "none"]

\* MirroredBuffer::update_data on data of length len: [buffer, panic].
update_data(b, len, allocated) ==
    IF ~allocated
    THEN [buffer |-> [b EXCEPT !.buffers = 0], panic |-> "unwrap"]
    ELSE [buffer |-> [b EXCEPT !.buffers = b.instances, !.len = len, !.dirty = TRUE],
          panic |-> "none"]

\* MirroredBuffer::update_buffers
upload(b) == [b EXCEPT !.dirty = FALSE]

\* MirroredBuffer::move_to_next: [buffer, panic]; % panics on a zero
\* divisor.
move_to_next(b) ==
    IF b.buffers = 0
    THEN [buffer |-> b, panic |-> "rem_by_zero"]
    ELSE [buffer |-> [b EXCEPT !.current_buffer = (@ + 1) % b.buffers],
          panic |-> "none"]

\* MirroredBuffer::current_buffer: the index of the buffer returned, or the
\* panic of the indexing.
current_buffer(b) ==
    IF b.current_buffer < b.buffers
    THEN [index |-> b.current_buffer, panic |-> "none"]
    ELSE [index |-> b.current_buffer, panic |-> "index_out_of_bounds"]

----------------------------------------------------------------------------
(* Camera *)

(* An angle is an f32 of radians, kept as a kind (finite, +infinity,       *)
(* -infinity, NaN) and, when finite, its whole number of degrees.          *)

NegInfinity == [kind |-> "ninf", n |-> 0]

\* a < b on f32.
f32_lt(a, b) ==
    /\ a.kind # "nan" /\ b.kind # "nan"
    /\ \/ a.kind = "ninf" /\ b.kind # "ninf"
       \/ a.kind = "fin" /\ b.kind = "inf"
       \/ a.kind = "fin" /\ b.kind = "fin" /\ a.n < b.n

\* a + b on f32.
f32_add(a, b) ==
    CASE a.kind = "nan" \/ b.kind = "nan" -> NaN
      [] a.kind = "fin" /\ b.kind = "fin" -> Fin(a.n + b.n)
      [] a.kind = "fin" -> b
      [] b.kind = "fin" -> a
      [] a.kind = b.kind -> a
      [] OTHER -> NaN

MIN_PITCH == Fin(-89)

MAX_PITCH == Fin(89)

MIN_FOV == Fin(1)

MAX_FOV == Fin(179)

\* clamp_rad: f32::clamp, which returns NaN for NaN.
clamp_rad(rad, min, max) ==
    IF f32_lt(rad, min) THEN min ELSE IF f32_lt(max, rad) THEN max ELSE rad

\* Camera::new(fov, ..).  camera_front and movement_axes are functions of
\* pitch and yaw and are not kept.
NewCamera(fov) ==
    [yaw |-> Fin(0), pitch |-> Fin(0), fov |-> clamp_rad(fov, MIN_FOV, MAX_FOV),
     perspective_dirty |-> TRUE, view_dirty |-> TRUE]

\* Camera::rotate_camera
rotate_camera(c, pitch, yaw) ==
    [c EXCEPT !.yaw = f32_add(@, IF yaw.kind = "fin" THEN Fin(-yaw.n) ELSE yaw),
              !.pitch = clamp_rad(f32_add(@, pitch), MIN_PITCH, MAX_PITCH),
              !.view_dirty = TRUE]

\* Camera::zoom
zoom(c, delta) ==
    LET fov == clamp_rad(f32_add(c.fov, delta), MIN_FOV, MAX_FOV)
    IN  IF c.fov.kind = "nan" \/ fov.kind = "nan" \/ c.fov # fov
        THEN [c EXCEPT !.fov = fov, !.perspective_dirty = TRUE]
        ELSE c

\* Camera::reversed_depth_perspective
reversed_depth_perspective(c) == [c EXCEPT !.perspective_dirty = FALSE]

\* Camera::view
view(c) == [c EXCEPT !.view_dirty = FALSE]

----------------------------------------------------------------------------
(* Engine: the state its event handler keeps *)

\* Engine::new
NewEngine == [holding_cursor |-> FALSE]

\* winit's MouseButton (Other(n) for every further button) and ElementState.
MouseButtons == {"Left", "Right", "Middle", "Other"}

ElementStates == {"Pressed", "Released"}

----------------------------------------------------------------------------
(* The parts of the program a specification leaves alone *)

FrontendAtRest ==
    /\ display = NewDisplay
    /\ mirrored = from_iter(2, 0, TRUE).buffer
    /\ camera = NewCamera(Fin(45))
    /\ engine = NewEngine

\* World::new, with no trace begun.
WorldAtRest ==
    /\ chunks = <<>>
    /\ world_mesh = NewMesh
    /\ world_dirty = FALSE
    /\ tracer = NoTrace

----------------------------------------------------------------------------
(* Specification of one chunk edited directly *)

\* World::new followed by Chunk::new(<<0, 0>>, world.dirty.clone(), ..).
InitChunk ==
    /\ chunks = Insert(<<>>, ChunkKey, NewChunk(ChunkKey))
    /\ world_mesh = NewMesh
    /\ world_dirty = TRUE
    /\ panic = "none"
    /\ last = NoEdit
    /\ tracer = NoTrace
    /\ FrontendAtRest

\* chunk.push_cube(Cube { center: pos, color })
ChunkPush(key, pos, color) ==
    /\ panic = "none"
    /\ key \in DOMAIN chunks
    /\ LET r == push_cube(chunks[key], pos, color)
       IN  /\ chunks' = [chunks EXCEPT ![key] = r.chunk]
           /\ world_dirty' = (world_dirty \/ r.set_world)
           /\ panic' = r.panic
    /\ last' = Edit("push", key, pos, color, chunks[key].cubes)
    /\ UNCHANGED <<world_mesh, tracer, frontend>>

\* chunk.remove_cube(pos)
ChunkRemove(key, pos) ==
    /\ panic = "none"
    /\ key \in DOMAIN chunks
    /\ LET r == remove_cube(chunks[key], pos)
       IN  /\ chunks' = [chunks EXCEPT ![key] = r.chunk]
           /\ world_dirty' = (world_dirty \/ r.set_world)
           /\ panic' = r.panic
    /\ last' = Edit("remove", key, pos, 0, chunks[key].cubes)
    /\ UNCHANGED <<world_mesh, tracer, frontend>>

NextChunk ==
    \/ \E pos \in ChunkSites, color \in Colours : ChunkPush(ChunkKey, pos, color)
    \/ \E pos \in ChunkSites : ChunkRemove(ChunkKey, pos)

SpecChunk == InitChunk /\ [][NextChunk]_vars

----------------------------------------------------------------------------
(* Specification of one chunk edited around an enclosed top-layer cell *)

\* The top-layer cell <<1, 255, 13>>, its northern neighbour and the cell of
\* layer 0 whose index is the one computed for the position above it; the
\* first NumCullSites of them are edited.
CullSiteList == << <<1, 255, 13>>, <<1, 0, 14>>, <<1, 255, 14>> >>

CullSites == {CullSiteList[i] : i \in 1..NumCullSites}

\* The cells placed before the edits start: the five in-chunk neighbours of
\* <<1, 255, 13>> and the layer-0 cell <<1, 0, 14>>.
ShellList ==
    << <<1, 254, 13>>, <<2, 255, 13>>, <<0, 255, 13>>, <<1, 255, 14>>,
       <<1, 255, 12>>, <<1, 0, 14>> >>

RECURSIVE PushAll(_, _, _)
PushAll(chunk, list, color) ==
    IF list = <<>>
    THEN chunk
    ELSE PushAll(push_cube(chunk, Head(list), color).chunk, Tail(list), color)

\* Chunk::new(<<0, 0>>, ..) followed by push_cube of the cells of ShellList.
InitCull ==
    /\ chunks = Insert(<<>>, ChunkKey, PushAll(NewChunk(ChunkKey), ShellList, 1))
    /\ world_mesh = NewMesh
    /\ world_dirty = TRUE
    /\ panic = "none"
    /\ last = NoEdit
    /\ tracer = NoTrace
    /\ FrontendAtRest

\* chunk.mesh() on one chunk, as the renderer pulls it (engine.rs render).
ChunkMeshPull(key) ==
    /\ panic = "none"
    /\ key \in DOMAIN chunks
    /\ chunks' = [chunks EXCEPT ![key] = mesh(chunks[key])]
    /\ last' = MeshCall("chunk_mesh", key, IF chunks[key].dirty THEN {key} ELSE {})
    /\ UNCHANGED <<world_mesh, world_dirty, panic, tracer, frontend>>

\* chunk.mesh.instance_buffer().update_buffers(builder)
ChunkUpload(key) ==
    /\ panic = "none"
    /\ key \in DOMAIN chunks
    /\ chunks[key].mesh.buf_dirty
    /\ chunks' = [chunks EXCEPT ![key].mesh = update_buffers(chunks[key].mesh)]
    /\ UNCHANGED <<world_mesh, world_dirty, panic, last, tracer, frontend>>

NextCull ==
    \/ \E pos \in CullSites, color \in Colours : ChunkPush(ChunkKey, pos, color)
    \/ \E pos \in CullSites : ChunkRemove(ChunkKey, pos)
    \/ ChunkMeshPull(ChunkKey)

SpecCull == InitCull /\ [][NextCull]_vars

----------------------------------------------------------------------------
(* Specification of the world *)

\* World positions in the chunks <<0, 0>> and <<-16, -16>>; the first
\* NumWorldSites of them are edited.
WorldSiteList == << <<0, 0, 0>>, <<-1, 0, -1>>, <<1, 0, 0>>, <<-1, 1, -1>> >>

WorldSites == {WorldSiteList[i] : i \in 1..NumWorldSites}

\* The colour and the fill height the edits of the world are made with: one
\* colour, and create_chunk building an empty column (the dirty flags and
\* the caches do not depend on either).
WorldColours == {1}

WorldFillHeights == {0}

\* Positions below and above the height range.
OffHeightSites == {<<0, -1, 0>>, <<0, 256, 0>>}

\* World::new
Init ==
    /\ chunks = <<>>
    /\ world_mesh = NewMesh
    /\ world_dirty = FALSE
    /\ panic = "none"
    /\ last = NoEdit
    /\ tracer = NoTrace
    /\ FrontendAtRest

\* World::push_cube
WorldPush(pos, color) ==
    /\ panic = "none"
    /\ LET key == chunk_id(pos)
           chunk == EntryOrInsert(chunks, key)
           r == push_cube(chunk, pos, color)
       IN  /\ chunks' = Insert(chunks, key, r.chunk)
           /\ world_dirty' = (world_dirty \/ key \notin DOMAIN chunks \/ r.set_world)
           /\ panic' = r.panic
           /\ last' = Edit("push", key, pos, color, chunk.cubes)
    /\ UNCHANGED <<world_mesh, tracer, frontend>>

\* World::remove_cube
WorldRemove(pos) ==
    /\ panic = "none"
    /\ IF ~(pos[2] >= 0)
       THEN /\ panic' = "assert"
            /\ last' = Edit("remove", chunk_id(pos), pos, 0, <<>>)
            /\ UNCHANGED <<chunks, world_dirty>>
       ELSE LET key == chunk_id(pos)
                chunk == EntryOrInsert(chunks, key)
                r == remove_cube(chunk, pos)
            IN  /\ chunks' = Insert(chunks, key, r.chunk)
                /\ world_dirty' = (world_dirty \/ key \notin DOMAIN chunks \/ r.set_world)
                /\ panic' = r.panic
                /\ last' = Edit("remove", key, pos, 0, chunk.cubes)
    /\ UNCHANGED <<world_mesh, tracer, frontend>>

\* World::create_chunk; a panic in the loop drops the chunk being built.
CreateChunk(x, y, z, color) ==
    /\ panic = "none"
    /\ \E key \in {chunk_id(<<x, 0, z>>)} :
       \E r \in {create_chunk_loops(key, y, color)} :
           /\ chunks' = IF r.panic = "none" THEN Insert(chunks, key, r.chunk) ELSE chunks
           /\ panic' = r.panic
           /\ last' = [Edit("create", key, <<x, y, z>>, color,
                            IF key \in DOMAIN chunks THEN chunks[key].cubes ELSE <<>>)
                           EXCEPT !.warnings = IF r.panic = "none"
                                               THEN InsertWarns(chunks, key)
                                               ELSE 0]
    /\ world_dirty' = TRUE
    /\ UNCHANGED <<world_mesh, tracer, frontend>>

\* What World::mesh leaves when HashMap::values_mut yields the chunks in
\* the order `order`: the chunks, the world mesh and the world flag.
world_mesh_result(order) ==
    IF world_dirty
    THEN [chunks |-> [k \in DOMAIN chunks |-> mesh(chunks[k])],
          world_mesh |-> [instances |-> ExtendAll(chunks, order, <<>>),
                          buf_dirty |-> TRUE],
          world_dirty |-> FALSE]
    ELSE [chunks |-> chunks, world_mesh |-> world_mesh, world_dirty |-> world_dirty]

\* World::mesh
WorldMeshCall ==
    /\ panic = "none"
    /\ \E order \in Orders(DOMAIN chunks) :
           LET r == world_mesh_result(order)
           IN  /\ chunks' = r.chunks
               /\ world_mesh' = r.world_mesh
               /\ world_dirty' = r.world_dirty
    /\ last' = MeshCall("world_mesh", <<0, 0>>,
                        IF world_dirty THEN {k \in DOMAIN chunks : chunks[k].dirty}
                        ELSE {})
    /\ UNCHANGED <<panic, tracer, frontend>>

\* world.mesh().instance_buffer().update_buffers(builder)
WorldUpload ==
    /\ panic = "none"
    /\ world_mesh.buf_dirty
    /\ world_mesh' = update_buffers(world_mesh)
    /\ UNCHANGED <<chunks, world_dirty, panic, last, tracer, frontend>>

Next ==
    \/ \E pos \in WorldSites \cup OffHeightSites, color \in WorldColours :
           WorldPush(pos, color)
    \/ \E pos \in WorldSites \cup OffHeightSites : WorldRemove(pos)
    \/ \E pos \in WorldSites, y \in WorldFillHeights, color \in WorldColours :
           CreateChunk(pos[1], y, pos[3], color)
    \/ \E key \in DOMAIN chunks : ChunkMeshPull(key)
    \/ \E key \in DOMAIN chunks : ChunkUpload(key)
    \/ WorldMeshCall
    \/ WorldUpload

Spec == Init /\ [][Next]_vars

----------------------------------------------------------------------------
(* Specification of a world built by create_chunk *)

\* The x and z create_chunk is called with: a position inside the chunk
\* <<0, 0>> and one inside the chunk <<-16, -16>>.
FillSites == {<<5, 9>>, <<-1, -1>>}

\* The full height of a chunk, as the y argument of create_chunk.
FullHeight == 16 * Y_STRIDE

\* create_chunk builds its chunk from a new one whatever the world holds,
\* so the call with the full height is made on the new world only.
NextFill ==
    \/ \E site \in FillSites, y \in FillHeights, color \in FillColours :
           CreateChunk(site[1], y, site[2], color)
    \/ /\ last = NoEdit
       /\ CreateChunk(5, FullHeight, 9, 1)
    \/ WorldMeshCall

SpecFill == Init /\ [][NextFill]_vars

----------------------------------------------------------------------------
(* Specification of one edit of an empty world at any position *)

KeyCoords == (0 - KeyRange)..KeyRange

\* World::new, and the position the edit will be made at.
InitKey ==
    /\ chunks = <<>>
    /\ world_mesh = NewMesh
    /\ world_dirty = FALSE
    /\ panic = "none"
    /\ tracer = NoTrace
    /\ FrontendAtRest
    /\ \E x \in KeyCoords, y \in {0, 255}, z \in KeyCoords :
           last = [NoEdit EXCEPT !.op = "input", !.pos = <<x, y, z>>]

KeyPush == last.op = "input" /\ WorldPush(last.pos, 1)

KeyRemove == last.op = "input" /\ WorldRemove(last.pos)

NextKey == KeyPush \/ KeyRemove

SpecKey == InitKey /\ [][NextKey]_vars

----------------------------------------------------------------------------
(* Specification of one trace through a world built by edits *)

\* The voxels a traced world holds a subset of: one inside the chunk
\* <<0, 0>>, one at the low x edge of the chunk <<16, 0>>, one at the high
\* x edge of the chunk <<-16, 0>>, one at the high z edge of <<0, -16>>.
TraceVoxelList == <<<<3, 0, 0>>, <<16, 0, 0>>, <<-1, 0, 0>>, <<0, 0, -1>>, <<0, 0, 16>>>>

TraceVoxelCount == IF NumTraceVoxels < 5 THEN NumTraceVoxels ELSE 5

\* Keys of chunks made resident with no voxel (create_chunk with height 0).
TraceEmptyKeys == {{}, {<<0, 0>>}}

RECURSIVE PushWorld(_, _, _)
\* World::push_cube of the voxels of TraceVoxelList numbered in S, in order
\* from the i-th on.
PushWorld(map, S, i) ==
    IF i > TraceVoxelCount THEN map
    ELSE IF i \notin S THEN PushWorld(map, S, i + 1)
    ELSE LET pos == TraceVoxelList[i]
             key == chunk_id(pos)
         IN  PushWorld(Insert(map, key, push_cube(EntryOrInsert(map, key), pos, 1).chunk),
                       S, i + 1)

\* World::new, create_chunk(.., 0, ..) for the keys of E, push_cube for S.
TraceWorld(S, E) == PushWorld([k \in E |-> NewChunk(k)], S, 1)

\* Origins, in quarters: cell centres, the corner (0.5, 0.5, 0.5) and its
\* negative, a point off every centre, a point below the Y range, a cell
\* at the high z edge of its chunk.
TraceOrigins ==
    {<<0, 0, 0>>, <<2, 2, 2>>, <<-2, 0, -2>>, <<40, 0, 0>>, <<56, 0, 0>>,
     <<12, 0, 0>>, <<12, -8, 0>>, <<1, -1, 3>>, <<0, 0, 60>>}

UnitDirections ==
    {<<1, 0, 0>>, <<-1, 0, 0>>, <<0, 1, 0>>, <<0, -1, 0>>, <<0, 0, 1>>, <<0, 0, -1>>,
     <<1, 1, 0>>, <<-1, 0, -1>>, <<1, 1, 1>>, <<0, 0, 0>>}

TraceDirections ==
    [v : UnitDirections, scale : {"unit"}]
        \cup [v : {<<1, 0, 0>>, <<-1, 0, 1>>, <<1, 1, 0>>}, scale : {"huge", "tiny"}]

\* The least max_radius whose ceiling squared overflows i32.
OverflowRadius == I32_ROOT + 1

\* max_radius, in quarters.
TraceRadii ==
    {Quarter * r : r \in {-3, 0, 1, 2, 3, 6}} \cup {-10, 10}
        \cup {Quarter * (OverflowRadius - 1), Quarter * OverflowRadius}

InitTrace ==
    /\ \E S \in SUBSET (1..TraceVoxelCount), E \in TraceEmptyKeys :
           /\ chunks = TraceWorld(S, E)
           /\ world_dirty = (S # {} \/ E # {})
    /\ world_mesh = NewMesh
    /\ panic = "none"
    /\ last = NoEdit
    /\ tracer = NoTrace
    /\ FrontendAtRest

\* World::cube_looking_at, up to the call of run.
CubeLookingAt(origin, direction, max_radius) ==
    /\ panic = "none"
    /\ tracer.pc = "idle"
    /\ tracer' = new(origin, direction, max_radius)
    /\ UNCHANGED <<chunks, world_mesh, world_dirty, panic, last, frontend>>

\* One iteration of the loop of BlockRayTracer::run, in a build with or
\* without overflow checks.  The world is borrowed for the whole trace, so
\* no edit comes between two iterations.
TraceIter ==
    /\ panic = "none"
    /\ tracer.pc = "running"
    /\ Len(tracer.path) < MaxPath
    /\ \E r \in {trace_iteration(chunks, tracer, oc) : oc \in BOOLEAN} :
           /\ tracer' = r.t
           /\ panic' = r.panic
    /\ UNCHANGED <<chunks, world_mesh, world_dirty, last, frontend>>

NextTrace ==
    \/ \E origin \in TraceOrigins, direction \in TraceDirections,
          max_radius \in TraceRadii :
           CubeLookingAt(origin, direction, max_radius)
    \/ TraceIter

SpecTrace == InitTrace /\ [][NextTrace]_vars

----------------------------------------------------------------------------
(* Specification of the engine looking at a world and placing a cube *)

LookOrigins == {<<0, 0, 0>>, <<12, -8, 0>>, <<12, 0, 0>>, <<56, 0, 0>>}

LookDirections ==
    [v : {<<1, 0, 0>>, <<0, 1, 0>>, <<-1, 0, -1>>}, scale : {"unit"}]

LookRadii == {Quarter, 3 * Quarter, 6 * Quarter}

\* What a returned call of cube_looking_at gave its caller.
Looked(t) == [op |-> "look", path |-> t.path, result_cube |-> t.result_cube]

\* The call of cube_looking_at repeated with the arguments of the call
\* that has returned (Engine::update makes the call once per frame).
CubeLookingAgain ==
    /\ panic = "none"
    /\ tracer.pc = "done"
    /\ last.op \notin {"look", "push"}
    /\ last' = Looked(tracer)
    /\ tracer' = new(tracer.origin, tracer.direction, tracer.max_radius)
    /\ UNCHANGED <<chunks, world_mesh, world_dirty, panic, frontend>>

\* The colour [1., 0.5, 1.0, 1.] of the cube Engine places.
PlaceColour == 2

\* Engine::place_at_looking_at with looking_at_cube the result of the
\* call of cube_looking_at that has returned.
PlaceAtLookingAt ==
    /\ tracer.pc = "done"
    /\ tracer.result_cube.some
    /\ last.op # "push"
    /\ WorldPush(Add3(tracer.result_cube.cube, tracer.result_cube.direction), PlaceColour)

NextLook ==
    \/ \E origin \in LookOrigins, direction \in LookDirections, max_radius \in LookRadii :
           CubeLookingAt(origin, direction, max_radius)
    \/ TraceIter
    \/ CubeLookingAgain
    \/ PlaceAtLookingAt
    \/ tracer.pc = "idle" /\ WorldMeshCall

SpecLook == InitTrace /\ [][NextLook]_vars

----------------------------------------------------------------------------
(* Specification of the conversions between chunk positions and indices *)

\* The heights of the chunk positions converted: the first and last layers
\* and the layers around the middle.
IndexHeights == {0, 1, 2, 127, 128, 253, 254, 255}

IndexPositions == {<<x, y, z>> : x \in 0..15, y \in IndexHeights, z \in 0..15}

\* The indices converted: every 37th, and those at both ends of each of
\* the 16 blocks of Z_STRIDE cells.
IndexSamples ==
    {i \in 0..(CUBES_LEN - 1) : i % 37 = 0 \/ i % Z_STRIDE < 34 \/ i % Z_STRIDE > Z_STRIDE - 35}

\* A value to convert has been chosen.
InitIndex ==
    /\ chunks = <<>>
    /\ world_mesh = NewMesh
    /\ world_dirty = FALSE
    /\ panic = "none"
    /\ tracer = NoTrace
    /\ FrontendAtRest
    /\ \/ \E p \in IndexPositions : last = [op |-> "position", pos |-> p]
       \/ \E i \in IndexSamples : last = [op |-> "index", index |-> i]

\* index_to_chunk_pos(chunk_pos_to_index(pos))
ToIndexAndBack ==
    /\ last.op = "position"
    /\ last' = [op |-> "to_index", pos |-> last.pos,
                index |-> chunk_pos_to_index(last.pos),
                back |-> index_to_chunk_pos(chunk_pos_to_index(last.pos))]
    /\ UNCHANGED <<chunks, world_mesh, world_dirty, panic, tracer, frontend>>

\* chunk_pos_to_index(index_to_chunk_pos(index))
ToPosAndBack ==
    /\ last.op = "index"
    /\ last' = [op |-> "to_pos", index |-> last.index,
                pos |-> index_to_chunk_pos(last.index),
                back |-> chunk_pos_to_index(index_to_chunk_pos(last.index))]
    /\ UNCHANGED <<chunks, world_mesh, world_dirty, panic, tracer, frontend>>

NextIndex == ToIndexAndBack \/ ToPosAndBack

SpecIndex == InitIndex /\ [][NextIndex]_vars

----------------------------------------------------------------------------
(* Specification of Chunk::cubes_around on a chunk built by pushes *)

Max(a, b) == IF a >= b THEN a ELSE b

Min(a, b) == IF a <= b THEN a ELSE b

\* radius.ceil() as i32: the cast saturates and sends NaN to 0.
ceil_as_i32(radius) ==
    CASE radius.kind = "inf" -> I32_MAX
      [] radius.kind = "nan" -> 0
      [] OTHER -> ceil(radius.n)

\* a + b on i32, for |a| < 2^30: whether it overflows, and the wrapped sum.
i32_add(a, b) ==
    IF b > 0 /\ a > I32_MAX - b
    THEN [overflow |-> TRUE, value |-> ((a - (I32_MAX - b)) - 1) - I32_MAX - 1]
    ELSE [overflow |-> FALSE, value |-> a + b]

\* a - b on i32, for |a| < 2^30: whether it overflows, and the wrapped
\* difference.
i32_sub(a, b) ==
    IF b > 0 /\ a < (b - I32_MAX) - 1
    THEN [overflow |-> TRUE, value |-> I32_MAX - ((((b - I32_MAX) - 1) - a) - 1)]
    ELSE [overflow |-> FALSE, value |-> a - b]

\* (pos - cube_pos).cast::<f32>().magnitude() <= radius: the square root of
\* a sum of squares of small integers against a multiple of 0.25 compares
\* as the squares do; everything is <= infinity and nothing is <= NaN.
within(pos, cube_pos, radius) ==
    \/ radius.kind = "inf"
    \/ /\ radius.kind = "fin"
       /\ radius.n >= 0
       /\ Quarter * Quarter * magnitude2(Sub3(pos, cube_pos)) <= radius.n * radius.n

RECURSIVE LoopOrder(_)
\* The chunk positions of S in the order in which loops over x (outermost),
\* y and z (innermost) visit them.
LoopOrder(S) ==
    IF S = {} THEN <<>>
    ELSE LET rank(cp) == (cp[1] * 256 + cp[2]) * 16 + cp[3]
             first == CHOOSE cp \in S : \A other \in S : rank(cp) <= rank(other)
         IN  <<first>> \o LoopOrder(S \ {first})

\* Chunk::cubes_around: the vector pushed by the three nested loops over the
\* clamped box, which is the occupied cells of the box that pass the
\* distance test, in the order of the loops.  The six bounds are sums and
\* differences on i32: with overflow checks the first that overflows
\* panics, without them it wraps.
cubes_around(chunk, pos, radius, overflow_checks) ==
    LET chunk_pos == in_relative_chunk_pos(chunk, pos)
        area_cube_radius == ceil_as_i32(radius)
        lo == [a \in 1..3 |-> i32_sub(chunk_pos[a], area_cube_radius)]
        hi == [a \in 1..3 |-> i32_add(chunk_pos[a], area_cube_radius)]
        min_x == Max(lo[1].value, 0)
        max_x == Min(hi[1].value, 15)
        min_y == Max(lo[2].value, 0)
        max_y == Min(hi[2].value, 255)
        min_z == Max(lo[3].value, 0)
        max_z == Min(hi[3].value, 15)
        world_pos(cp) == Add3(cp, <<chunk.start[1], 0, chunk.start[2]>>)
        pushed ==
            {cp \in {index_to_chunk_pos(index) : index \in DOMAIN chunk.cubes} :
                /\ min_x <= cp[1] /\ cp[1] <= max_x
                /\ min_y <= cp[2] /\ cp[2] <= max_y
                /\ min_z <= cp[3] /\ cp[3] <= max_z
                /\ within(pos, world_pos(cp), radius)}
        order == LoopOrder(pushed)
    IN  IF overflow_checks /\ \E a \in 1..3 : lo[a].overflow \/ hi[a].overflow
        THEN [panic |-> "overflow", cubes |-> <<>>]
        ELSE [panic |-> "none",
              cubes |-> [n \in DOMAIN order |-> world_pos(order[n])]]

\* Chunk positions of the cells a searched chunk is built from.
AroundSiteList ==
    << <<0, 0, 0>>, <<1, 0, 0>>, <<1, 1, 1>>, <<0, 2, 0>>, <<3, 0, 0>>, <<15, 1, 15>> >>

AroundSiteCount == IF NumAroundSites < 6 THEN NumAroundSites ELSE 6

\* The starts of the searched chunk.
AroundKeys == {<<0, 0>>, <<-16, 32>>}

\* Centres as offsets from the chunk's start: cells of the chunk and
\* positions outside it on every side.
AroundCentres ==
    {<<0, 0, 0>>, <<1, 1, 0>>, <<-1, 0, 0>>, <<0, -2, 0>>, <<0, 0, -1>>,
     <<17, 0, 0>>, <<0, 257, 0>>, <<1, 0, 16>>}

AroundRadii == {Fin(q) : q \in {-4, 0, 2, 4, 6, 8, 9}} \cup {NaN}

\* The centres searched with radius f32::INFINITY.
AroundFarCentres == {<<0, 0, 0>>, <<1, 1, 0>>, <<0, -2, 0>>}

\* The pairs of a centre and a radius.
AroundArgs ==
    (AroundCentres \X AroundRadii) \cup (AroundFarCentres \X {Infinity})

RECURSIVE AroundList(_, _, _)
\* The world positions of the cells of AroundSiteList numbered in S, from
\* the i-th on, in the chunk that starts at key.
AroundList(key, S, i) ==
    IF i > AroundSiteCount THEN <<>>
    ELSE (IF i \in S
          THEN <<Add3(AroundSiteList[i], <<key[1], 0, key[2]>>)>>
          ELSE <<>>) \o AroundList(key, S, i + 1)

\* Chunk::new(key, ..) followed by push_cube of some cells.
InitAround ==
    /\ \E key \in AroundKeys, S \in SUBSET (1..AroundSiteCount) :
           chunks = Insert(<<>>, key, PushAll(NewChunk(key), AroundList(key, S, 1), 1))
    /\ world_mesh = NewMesh
    /\ world_dirty = TRUE
    /\ panic = "none"
    /\ last = NoEdit
    /\ tracer = NoTrace
    /\ FrontendAtRest

\* chunk.cubes_around(pos, radius).collect()
CubesAround(key, pos, radius) ==
    /\ panic = "none"
    /\ key \in DOMAIN chunks
    /\ \E r \in {cubes_around(chunks[key], pos, radius, oc) : oc \in BOOLEAN} :
           /\ last' = [op |-> "around", key |-> key, pos |-> pos,
                       radius |-> radius, cubes |-> r.cubes]
           /\ panic' = r.panic
    /\ UNCHANGED <<chunks, world_mesh, world_dirty, tracer, frontend>>

NextAround ==
    \E key \in DOMAIN chunks, args \in AroundArgs :
        CubesAround(key, Add3(args[1], <<key[1], 0, key[2]>>), args[2])

SpecAround == InitAround /\ [][NextAround]_vars

----------------------------------------------------------------------------
(* Specification of the frames of a display *)

\* The record of a call on the display.  pre: the display before the call;
\* recreate: the answer of Swapchain::recreate when begin_frame asked for
\* one, "none" otherwise; open: a begin_frame has returned Ok and no
\* end_frame was called since; retry: a begin_frame has returned
\* AcquireOutOfDate and neither an end_frame nor a begin_frame that
\* returned Ok came since; was_open, was_retry: the same before the call.
FrameCall(op, result, recreate, open, retry) ==
    [op |-> op, result |-> result, pre |-> display, recreate |-> recreate,
     open |-> open, retry |-> retry,
     was_open |-> last.open, was_retry |-> last.retry]

InitDisplay ==
    /\ WorldAtRest
    /\ panic = "none"
    /\ display = NewDisplay
    /\ last = [op |-> "new", result |-> "Ok", pre |-> NewDisplay, recreate |-> "none",
               open |-> FALSE, retry |-> FALSE, was_open |-> FALSE, was_retry |-> FALSE]
    /\ mirrored = from_iter(2, 0, TRUE).buffer
    /\ camera = NewCamera(Fin(45))
    /\ engine = NewEngine

\* The window is minimized or restored between two calls.
WindowResized(empty) ==
    /\ panic = "none"
    /\ display.window_empty # empty
    /\ display' = [display EXCEPT !.window_empty = empty]
    /\ last' = FrameCall("window", "Ok", "none", last.open, last.retry)
    /\ UNCHANGED <<world, panic, mirrored, camera, engine>>

\* display.resize()
Resize ==
    /\ panic = "none"
    /\ display' = resize(display)
    /\ last' = FrameCall("resize", "Ok", "none", last.open, last.retry)
    /\ UNCHANGED <<world, panic, mirrored, camera, engine>>

\* display.begin_frame()
BeginFrame(recreate, acquire) ==
    /\ panic = "none"
    /\ recreate = "Ok" => display.swapchain < MaxSwapchains
    /\ LET r == begin_frame(display, recreate, acquire)
           asked == ~display.window_empty /\ display.previous_frame_end
                        /\ display.recreate_swapchain
       IN  /\ display' = r.display
           /\ panic' = r.panic
           /\ last' = FrameCall("begin_frame", r.result,
                                IF asked THEN recreate ELSE "none",
                                last.open \/ r.result = "Ok",
                                (last.retry /\ r.result # "Ok")
                                    \/ r.result = "AcquireOutOfDate")
    /\ UNCHANGED <<world, mirrored, camera, engine>>

\* display.end_frame(future)
EndFrame(flush) ==
    /\ panic = "none"
    /\ display' = end_frame(display, flush)
    /\ last' = FrameCall("end_frame", flush, "none", FALSE, FALSE)
    /\ UNCHANGED <<world, panic, mirrored, camera, engine>>

NextDisplay ==
    \/ \E empty \in BOOLEAN : WindowResized(empty)
    \/ Resize
    \/ \E recreate \in RecreateOutcomes, acquire \in AcquireOutcomes :
           BeginFrame(recreate, acquire)
    \/ \E flush \in FlushOutcomes : EndFrame(flush)

SpecDisplay == InitDisplay /\ [][NextDisplay]_vars

----------------------------------------------------------------------------
(* Specification of the engine handling mouse buttons *)

\* self.looking_at_cube: what the last Engine::update stored, None before
\* the first.
looking_at_cube == IF tracer.pc = "done" THEN tracer.result_cube ELSE NoLookAt

\* The record of an event that edited nothing.
Handled == [NoEdit EXCEPT !.op = "event"]

\* Engine::handle_events on WindowEvent::MouseInput { button, state, .. },
\* between two calls of Engine::update.  The first arm takes the right
\* button in either state, the second every other button when pressed, the
\* last arm of the match the rest.
MouseInput(button, state) ==
    /\ panic = "none"
    /\ tracer.pc # "running"
    /\ CASE button = "Right" ->
               /\ engine' = [engine EXCEPT !.holding_cursor = (state = "Pressed")]
               /\ last' = Handled
               /\ UNCHANGED <<world, panic, display, mirrored, camera>>
         [] button # "Right" /\ state = "Pressed" /\ button = "Left" ->
               IF looking_at_cube.some
               THEN WorldRemove(looking_at_cube.cube)
               ELSE last' = Handled /\ UNCHANGED <<world, panic, frontend>>
         [] button # "Right" /\ state = "Pressed" /\ button = "Middle" ->
               IF looking_at_cube.some
               THEN WorldPush(Add3(looking_at_cube.cube, looking_at_cube.direction),
                              PlaceColour)
               ELSE last' = Handled /\ UNCHANGED <<world, panic, frontend>>
         [] button # "Right" /\ state = "Pressed"
                /\ button \notin {"Left", "Middle"} ->
               /\ panic' = "unreachable"
               /\ last' = Handled
               /\ UNCHANGED <<world, frontend>>
         [] OTHER -> last' = Handled /\ UNCHANGED <<world, panic, frontend>>

NextMouse ==
    \/ \E origin \in LookOrigins, direction \in LookDirections, max_radius \in LookRadii :
           CubeLookingAt(origin, direction, max_radius)
    \/ TraceIter
    \/ \E button \in MouseButtons, state \in ElementStates : MouseInput(button, state)

SpecMouse == InitTrace /\ [][NextMouse]_vars

----------------------------------------------------------------------------
(* Specification of one MirroredBuffer *)

\* Lengths of the data a buffer is built from and updated with.
DataLengths == 0..2

\* The record of a call on the buffer: the buffer before it and, for
\* current_buffer, the index returned.
BufferCall(op, index) == [op |-> op, pre |-> mirrored, index |-> index]

\* MirroredBuffer::from_iter(queue, instances, usage, data)
InitMirror ==
    /\ WorldAtRest
    /\ \E instances \in 0..MaxMirrors, len \in DataLengths, allocated \in BOOLEAN :
           /\ mirrored = from_iter(instances, len, allocated).buffer
           /\ panic = from_iter(instances, len, allocated).panic
           /\ last = [op |-> "from_iter", pre |-> mirrored, index |-> 0]
    /\ display = NewDisplay
    /\ camera = NewCamera(Fin(45))
    /\ engine = NewEngine

\* buffer.update_data(data)
UpdateData(len, allocated) ==
    /\ panic = "none"
    /\ mirrored' = update_data(mirrored, len, allocated).buffer
    /\ panic' = update_data(mirrored, len, allocated).panic
    /\ last' = BufferCall("update_data", 0)
    /\ UNCHANGED <<world, display, camera, engine>>

\* buffer.update_buffers(builder)
UpdateBuffers ==
    /\ panic = "none"
    /\ mirrored' = upload(mirrored)
    /\ last' = BufferCall("update_buffers", 0)
    /\ UNCHANGED <<world, panic, display, camera, engine>>

\* buffer.move_to_next()
MoveToNext ==
    /\ panic = "none"
    /\ mirrored' = move_to_next(mirrored).buffer
    /\ panic' = move_to_next(mirrored).panic
    /\ last' = BufferCall("move_to_next", 0)
    /\ UNCHANGED <<world, display, camera, engine>>

\* buffer.current_buffer()
CurrentBuffer ==
    /\ panic = "none"
    /\ panic' = current_buffer(mirrored).panic
    /\ last' = BufferCall("current_buffer", current_buffer(mirrored).index)
    /\ UNCHANGED <<world, mirrored, display, camera, engine>>

NextMirror ==
    \/ \E len \in DataLengths, allocated \in BOOLEAN : UpdateData(len, allocated)
    \/ UpdateBuffers
    \/ MoveToNext
    \/ CurrentBuffer

SpecMirror == InitMirror /\ [][NextMirror]_vars

----------------------------------------------------------------------------
(* Specification of one camera *)

\* The deltas of rotate_camera (pitch) and zoom.
AngleDeltas ==
    {Fin(n) : n \in {-200, -45, 0, 45, 200}} \cup {Infinity, NegInfinity, NaN}

\* The yaws of rotate_camera, quarter turns.
YawDeltas == {Fin(n) : n \in {-90, 0, 90}}

\* The fields of view a camera is constructed with (the engine's is 45).
InitialFovs == {Fin(45), Fin(0), Fin(200)}

\* The record of a call on the camera: the camera before it.
CameraCall(op) == [op |-> op, pre |-> camera]

InitCamera ==
    /\ WorldAtRest
    /\ panic = "none"
    /\ \E fov \in InitialFovs : camera = NewCamera(fov)
    /\ last = [op |-> "new", pre |-> camera]
    /\ display = NewDisplay
    /\ mirrored = from_iter(2, 0, TRUE).buffer
    /\ engine = NewEngine

\* camera.rotate_camera(pitch, yaw)
RotateCamera(pitch, yaw) ==
    /\ Abs(rotate_camera(camera, pitch, yaw).yaw.n) <= 90 * MaxTurns
    /\ camera' = rotate_camera(camera, pitch, yaw)
    /\ last' = CameraCall("rotate_camera")
    /\ UNCHANGED <<world, panic, display, mirrored, engine>>

\* camera.zoom(delta)
Zoom(delta) ==
    /\ camera' = zoom(camera, delta)
    /\ last' = CameraCall("zoom")
    /\ UNCHANGED <<world, panic, display, mirrored, engine>>

\* camera.reversed_depth_perspective()
ReversedDepthPerspective ==
    /\ camera' = reversed_depth_perspective(camera)
    /\ last' = CameraCall("reversed_depth_perspective")
    /\ UNCHANGED <<world, panic, display, mirrored, engine>>

\* camera.view()
View ==
    /\ camera' = view(camera)
    /\ last' = CameraCall("view")
    /\ UNCHANGED <<world, panic, display, mirrored, engine>>

NextCamera ==
    \/ \E pitch \in AngleDeltas, yaw \in YawDeltas : RotateCamera(pitch, yaw)
    \/ \E delta \in AngleDeltas : Zoom(delta)
    \/ ReversedDepthPerspective
    \/ View

SpecCamera == InitCamera /\ [][NextCamera]_vars

----------------------------------------------------------------------------
(* Vocabulary of the properties *)

\* The chunk's 16 x 256 x 16 extent, in chunk positions.
InExtent(cp) ==
    /\ 0 <= cp[1] /\ cp[1] < 16
    /\ 0 <= cp[2] /\ cp[2] < 256
    /\ 0 <= cp[3] /\ cp[3] < 16

\* The cell at chunk position cp lies in the extent and is occupied.
OccupiedAt(cubes, cp) == InExtent(cp) /\ chunk_pos_to_index(cp) \in DOMAIN cubes

\* The chunk position of world position pos in the chunk that starts at key.
Local(key, pos) == Sub3(pos, <<key[1], 0, key[2]>>)

LastIsEdit == last.op \in {"push", "remove"}

LastLocal == Local(last.key, last.pos)

LastCubes == chunks[last.key].cubes

----------------------------------------------------------------------------
(* C1: after any sequence of place and remove on in-footprint positions    *)
(* that left the program running, every occupied voxel's bit i is true     *)
(* exactly when the cell next to it in direction i lies inside the chunk   *)
(* extent and is occupied; bits pointing outside the chunk are false.      *)
C1_MasksMatchNeighbours ==
    panic = "none" =>
        \A key \in DOMAIN chunks :
            \A idx \in DOMAIN chunks[key].cubes :
                \A i \in 0..5 :
                    chunks[key].cubes[idx].sides_present[i]
                        = OccupiedAt(chunks[key].cubes,
                                     around_cubes(index_to_chunk_pos(idx))[i])

(* C2: right after place(P) every occupied in-chunk neighbour of P in      *)
(* direction i has its bit i XOR 1 true, and right after remove(P) that    *)
(* bit is false.                                                          *)
C2_NeighbourBitFollowsEdit ==
    LastIsEdit /\ InExtent(LastLocal) =>
        \A i \in 0..5 :
            LET n == around_cubes(LastLocal)[i]
            IN  OccupiedAt(LastCubes, n) =>
                    LastCubes[chunk_pos_to_index(n)].sides_present[Xor1(i)]
                        = (last.op = "push")

(* C3 as stated: place(P) directly followed by remove(P) leaves the cells  *)
(* (occupancy and masks) as they were before the place, whatever the       *)
(* state before.                                                          *)
C3_PlaceRemoveRestoresAlways ==
    last.orig.some => LastCubes = last.orig.cubes

\* remove_cube after push_cube at pos on the chunk, by the operators.
PlaceThenRemove(chunk, pos, color) ==
    remove_cube(push_cube(chunk, pos, color).chunk, pos).chunk

(* C3 amended: when P is unoccupied before the place, place(P) directly    *)
(* followed by remove(P) leaves the cells (occupancy, colours, masks) as   *)
(* they were before the place; this covers the top-layer corner cell,      *)
(* where both calls panic after writing the cell.                          *)
C3_PlaceRemoveRestoresEmpty ==
    /\ (last.orig.some /\ chunk_pos_to_index(LastLocal) \notin DOMAIN last.orig.cubes)
           => LastCubes = last.orig.cubes
    /\ panic = "none" =>
           \A key \in DOMAIN chunks :
               \A pos \in Sites \cup {TopCorner}, color \in Colours :
                   chunk_pos_to_index(Local(key, pos)) \notin DOMAIN chunks[key].cubes
                       => PlaceThenRemove(chunks[key], pos, color).cubes
                              = chunks[key].cubes

\* A remove has just undone the place of a cell that was empty and has an
\* occupied neighbour.
C3_Witness ==
    /\ last.orig.some
    /\ panic = "none"
    /\ chunk_pos_to_index(LastLocal) \notin DOMAIN last.orig.cubes
    /\ \E i \in 0..5 : OccupiedAt(LastCubes, around_cubes(LastLocal)[i])

(* C10: a place or remove whose position maps outside the target chunk's   *)
(* footprint panics on the unwrap of in_chunk_pos and writes no cell.      *)
C10_OutsideWritePanics ==
    (LastIsEdit /\ ~InExtent(LastLocal)) =>
        /\ panic = "unwrap_none"
        /\ LastCubes = last.pre

\* An out-of-footprint place on a chunk that holds cubes has panicked.
C10_Witness ==
    /\ last.op = "push"
    /\ ~InExtent(LastLocal)
    /\ panic = "unwrap_none"
    /\ DOMAIN LastCubes # {}

----------------------------------------------------------------------------
\* The instance the claims expect for the occupied cell idx of a chunk.
ExpectedInstance(chunk, idx) ==
    [color |-> chunk.cubes[idx].color,
     translation |-> Add3(index_to_chunk_pos(idx), <<chunk.start[1], 0, chunk.start[2]>>)]

AllTrue(cube) == \A i \in 0..5 : cube.sides_present[i]

\* The occupied cells of a chunk that are not fully enclosed.
VisibleCells(chunk) == {idx \in DOMAIN chunk.cubes : ~AllTrue(chunk.cubes[idx])}

\* list holds exactly one instance per cell of VisibleCells and nothing else.
ExactlyVisible(chunk, list) ==
    /\ Len(list) = Cardinality(VisibleCells(chunk))
    /\ \A idx \in VisibleCells(chunk) :
           \E k \in 1..Len(list) : list[k] = ExpectedInstance(chunk, idx)
    /\ \A k \in 1..Len(list) :
           \E idx \in VisibleCells(chunk) : list[k] = ExpectedInstance(chunk, idx)

\* The six boundary layers of a chunk.
OnBoundary(cp) ==
    \/ cp[1] \in {0, 15}
    \/ cp[2] \in {0, 255}
    \/ cp[3] \in {0, 15}

(* C4: once a dirty chunk's mesh has been rebuilt, its instance list holds *)
(* exactly one instance for every occupied cell whose mask is not all      *)
(* true, at local position + chunk origin with the voxel's colour, and no  *)
(* instance for a cell whose six bits are all true or for an empty cell.   *)
C4_MeshIsVisibleCells ==
    panic = "none" =>
        \A key \in DOMAIN chunks :
            ~chunks[key].dirty =>
                ExactlyVisible(chunks[key], chunks[key].mesh.instances)

\* A rebuilt chunk holding a fully enclosed cell (left out of the list) and
\* cells that are drawn.
C4_Witness ==
    /\ panic = "none"
    /\ \E key \in DOMAIN chunks :
          /\ ~chunks[key].dirty
          /\ \E idx \in DOMAIN chunks[key].cubes : AllTrue(chunks[key].cubes[idx])
          /\ Len(chunks[key].mesh.instances) > 0
          /\ \E a, b \in 1..Len(chunks[key].mesh.instances) :
                 chunks[key].mesh.instances[a].color
                     # chunks[key].mesh.instances[b].color

(* C5: every occupied voxel on one of the six boundary layers of a chunk   *)
(* is in the chunk's rebuilt mesh, whatever else the chunk holds.          *)
C5_BoundaryVoxelsDrawn ==
    panic = "none" =>
        \A key \in DOMAIN chunks :
            ~chunks[key].dirty =>
                \A idx \in DOMAIN chunks[key].cubes :
                    OnBoundary(index_to_chunk_pos(idx)) =>
                        \E k \in 1..Len(chunks[key].mesh.instances) :
                            chunks[key].mesh.instances[k]
                                = ExpectedInstance(chunks[key], idx)

----------------------------------------------------------------------------
\* The visible cells of the whole world, as <<chunk key, index>>.
WorldVisible ==
    {c \in UNION {{<<k, idx>> : idx \in DOMAIN chunks[k].cubes} : k \in DOMAIN chunks} :
        ~AllTrue(chunks[c[1]].cubes[c[2]])}

\* list holds exactly one instance per visible cell of the world.
ExactlyWorldVisible(list) ==
    /\ Len(list) = Cardinality(WorldVisible)
    /\ \A c \in WorldVisible :
           \E n \in 1..Len(list) : list[n] = ExpectedInstance(chunks[c[1]], c[2])
    /\ \A n \in 1..Len(list) :
           \E c \in WorldVisible : list[n] = ExpectedInstance(chunks[c[1]], c[2])

(* C6: in every state reached by World place, remove, create_chunk, direct *)
(* chunk mesh pulls and World.mesh() calls, the list World.mesh() returns  *)
(* holds exactly the instances of the occupied, not fully enclosed voxels  *)
(* of all resident chunks.                                                 *)
C6_WorldMeshNeverStale ==
    panic = "none" =>
        \A order \in Orders(DOMAIN chunks) :
            ExactlyWorldVisible(world_mesh_result(order).world_mesh.instances)

\* World.mesh() has just rebuilt a list with the instances of two chunks,
\* one of which it did not have to rebuild.
C6_Witness ==
    /\ last.op = "world_mesh"
    /\ last.rebuilt # {}
    /\ Len(world_mesh.instances) >= 2
    /\ \E k \in DOMAIN chunks \ last.rebuilt : chunks[k].mesh.instances # <<>>

(* C7: whenever a resident chunk's dirty flag is set the world flag is set *)
(* too, and World.mesh() leaves the world flag clear only with every       *)
(* chunk's flag clear.                                                    *)
C7_ChunkDirtyImpliesWorldDirty ==
    /\ \A k \in DOMAIN chunks : chunks[k].dirty => world_dirty
    /\ last.op = "world_mesh" =>
           (~world_dirty /\ \A k \in DOMAIN chunks : ~chunks[k].dirty)

\* An edit has set both flags again after World.mesh() had cleared them.
C7_Witness ==
    /\ last.op \in {"push", "remove"}
    /\ panic = "none"
    /\ world_dirty
    /\ chunks[last.key].dirty
    /\ world_mesh.instances # <<>>

(* C8: World.mesh() with the world flag clear changes nothing; with the    *)
(* flag set it leaves every chunk whose own flag is clear as it is         *)
(* (instance list and instance buffer).                                    *)
C8_MeshSkipsCleanWork ==
    panic = "none" =>
        \A order \in Orders(DOMAIN chunks) :
            LET r == world_mesh_result(order)
            IN  /\ ~world_dirty =>
                       /\ r.chunks = chunks
                       /\ r.world_mesh = world_mesh
                       /\ r.world_dirty = world_dirty
                /\ \A k \in DOMAIN chunks : ~chunks[k].dirty => r.chunks[k] = chunks[k]

\* World.mesh() has rebuilt one chunk and skipped another whose instance
\* buffer stays uploaded.
C8_Witness ==
    /\ last.op = "world_mesh"
    /\ last.rebuilt # {}
    /\ \E k \in DOMAIN chunks \ last.rebuilt :
           /\ chunks[k].mesh.instances # <<>>
           /\ ~chunks[k].mesh.buf_dirty

(* C9: the chunk key of a world position is (16*floor(x/16),               *)
(* 16*floor(z/16)), so key.x <= x < key.x + 16 and key.z <= z < key.z + 16 *)
(* also for negative x and z, and a World place or remove with             *)
(* 0 <= y < 256 lands inside the footprint of the chunk it fetches or      *)
(* creates and never fails on the footprint test.                          *)
C9_KeyIsFloorAndEditLands ==
    (LastIsEdit /\ last.pos[2] >= 0 /\ last.pos[2] < 256) =>
        /\ last.key = chunk_id(last.pos)
        /\ last.key = <<16 * (last.pos[1] \div 16), 16 * (last.pos[3] \div 16)>>
        /\ last.key[1] <= last.pos[1] /\ last.pos[1] < last.key[1] + 16
        /\ last.key[2] <= last.pos[3] /\ last.pos[3] < last.key[2] + 16
        /\ last.key \in DOMAIN chunks
        /\ chunks[last.key].start = last.key
        /\ InExtent(LastLocal)
        /\ panic # "unwrap_none"
        /\ (panic = "none" /\ last.op = "push") =>
               chunk_pos_to_index(LastLocal) \in DOMAIN LastCubes

\* A place at negative x and z, not on a chunk corner, has landed.
C9_Witness ==
    /\ last.op = "push"
    /\ panic = "none"
    /\ last.pos[1] < 0 /\ last.pos[1] % 16 # 0
    /\ last.pos[3] < 0 /\ last.pos[3] % 16 # 0
    /\ chunk_pos_to_index(LastLocal) \in DOMAIN LastCubes

----------------------------------------------------------------------------
\* The indices of the cells with y < h of a chunk.
FilledIndices(h) ==
    {chunk_pos_to_index(<<x, y, z>>) : x \in 0..15, y \in 0..(h - 1), z \in 0..15}

\* The indices of the cells of a column of height h that have all six
\* neighbours inside the column.
InteriorIndices(h) ==
    {chunk_pos_to_index(<<x, y, z>>) : x \in 1..14, y \in 1..(h - 2), z \in 1..14}

\* The height of the column a chunk holds, if it holds one.
ColumnHeight(chunk) == Cardinality(DOMAIN chunk.cubes) \div 256

(* C11: create_chunk(x0, h, z0, color) completes for every h from 0 to 256 *)
(* and leaves, at the key of the chunk containing (x0, z0), a chunk with   *)
(* exactly the 16*h*16 cells with y < h occupied.                          *)
C11_FillLeavesColumn ==
    last.op = "create" =>
        /\ panic = "none"
        /\ last.key = <<16 * (last.pos[1] \div 16), 16 * (last.pos[3] \div 16)>>
        /\ last.key \in DOMAIN chunks
        /\ chunks[last.key].start = last.key
        /\ DOMAIN LastCubes = FilledIndices(last.pos[2])
        /\ Cardinality(DOMAIN LastCubes) = 16 * last.pos[2] * 16

(* C12: after create_chunk with height h, 3 <= h < 256, on an empty world, *)
(* World::mesh() returns fewer than 16*h*16 instances: it leaves out       *)
(* exactly the interior voxels (1 <= x <= 14, 1 <= z <= 14,                *)
(* 1 <= y <= h-2 in chunk positions) and holds every other voxel of the    *)
(* column, among them the layers y = h-1 and y = 0 and the x/z boundary.   *)
C12_FillMeshOmitsInterior ==
    \A k \in DOMAIN chunks :
        LET h == ColumnHeight(chunks[k])
            list == world_mesh.instances
        IN  (/\ panic = "none"
             /\ ~world_dirty
             /\ DOMAIN chunks = {k}
             /\ 3 <= h /\ h < 256
             /\ DOMAIN chunks[k].cubes = FilledIndices(h))
            => /\ Len(list) < 16 * h * 16
               /\ Len(list) = 16 * h * 16 - 14 * (h - 2) * 14
               /\ {list[n] : n \in 1..Len(list)}
                      = {ExpectedInstance(chunks[k], idx) :
                             idx \in FilledIndices(h) \ InteriorIndices(h)}

\* World::mesh() has been called on a world holding one column of height
\* MaxFillH.
C12_Witness ==
    /\ last.op = "world_mesh"
    /\ last.rebuilt # {}
    /\ \E k \in DOMAIN chunks :
           /\ DOMAIN chunks = {k}
           /\ DOMAIN chunks[k].cubes = FilledIndices(MaxFillH)
           /\ Len(world_mesh.instances) = 16 * MaxFillH * 16 - 14 * (MaxFillH - 2) * 14

(* C13: a create_chunk call that returns writes one WARN line when its key *)
(* was resident and none when it was not, and leaves at the key the newly  *)
(* built chunk: exactly the cells of the new column in the new colour, a   *)
(* new (empty, dirty) mesh, and the world flag set.                        *)
C13_RefillWarnsOnceAndReplaces ==
    (last.op = "create" /\ panic = "none") =>
        /\ last.warnings = (IF last.resident THEN 1 ELSE 0)
        /\ last.key \in DOMAIN chunks
        /\ DOMAIN LastCubes = FilledIndices(last.pos[2])
        /\ \A idx \in DOMAIN LastCubes : LastCubes[idx].color = last.color
        /\ chunks[last.key].mesh = NewMesh
        /\ chunks[last.key].dirty
        /\ world_dirty

\* create_chunk with height 0 has replaced a resident chunk that held a
\* column and had been meshed.
C13_Witness ==
    /\ last.op = "create"
    /\ panic = "none"
    /\ last.resident
    /\ last.warnings = 1
    /\ last.pre # <<>>
    /\ LastCubes = <<>>
    /\ world_mesh.instances # <<>>

----------------------------------------------------------------------------
(* Properties of a trace *)

\* The world positions of the occupied cells of all resident chunks.
WorldVoxels ==
    UNION {{Add3(index_to_chunk_pos(i), <<k[1], 0, k[2]>>) : i \in DOMAIN chunks[k].cubes}
           : k \in DOMAIN chunks}

Traced == tracer.pc # "idle"

Returned == tracer.pc = "done"

UnitDirection(v) == [v |-> v, scale |-> "unit"]

\* C14 as stated: with (3, 0, 0) the only occupied voxel, the trace from
\* origin (0.5, 0.5, 0.5) along (1, 0, 0) returns voxel (3, 0, 0) with
\* direction (-1, 0, 0) when max_radius >= 3 and None when max_radius < 3.
C14_FoundFromHalfCorner ==
    (/\ Returned
     /\ WorldVoxels = {<<3, 0, 0>>}
     /\ tracer.origin = <<2, 2, 2>>
     /\ tracer.direction = UnitDirection(<<1, 0, 0>>))
        => tracer.result_cube = IF tracer.max_radius >= 3 * Quarter
                                THEN LookAt(<<3, 0, 0>>, <<-1, 0, 0>>)
                                ELSE NoLookAt

\* C14, amended: with (3, 0, 0) the only occupied voxel, the trace from
\* origin (0, 0, 0) along (1, 0, 0) does not panic and returns voxel
\* (3, 0, 0) with direction (-1, 0, 0) for 2 < max_radius <= 46340, and
\* None for -3 < max_radius <= 2.
C14_FoundFromOriginCell ==
    (/\ Traced
     /\ WorldVoxels = {<<3, 0, 0>>}
     /\ tracer.origin = <<0, 0, 0>>
     /\ tracer.direction = UnitDirection(<<1, 0, 0>>))
        => /\ (2 * Quarter < tracer.max_radius /\ tracer.max_radius <= I32_ROOT * Quarter)
                => /\ panic = "none"
                   /\ Returned => tracer.result_cube = LookAt(<<3, 0, 0>>, <<-1, 0, 0>>)
           /\ (-3 * Quarter < tracer.max_radius /\ tracer.max_radius <= 2 * Quarter)
                => /\ panic = "none"
                   /\ Returned => tracer.result_cube = NoLookAt

\* A trace with max_radius 2.5 from (0, 0, 0) has returned the voxel (3, 0, 0).
C14_Witness ==
    /\ Returned
    /\ WorldVoxels = {<<3, 0, 0>>}
    /\ tracer.origin = <<0, 0, 0>>
    /\ tracer.direction = UnitDirection(<<1, 0, 0>>)
    /\ tracer.max_radius = 10
    /\ tracer.result_cube.some

\* The world of the two resident chunks <<0, 0>> and <<16, 0>> whose only
\* voxel is (16, 0, 0), traced from (10, 0, 0) along (1, 0, 0) with a
\* max_radius from 6 up to the largest whose square fits i32.
TwoChunkExample ==
    /\ DOMAIN chunks = {<<0, 0>>, <<16, 0>>}
    /\ WorldVoxels = {<<16, 0, 0>>}
    /\ tracer.origin = <<10 * Quarter, 0, 0>>
    /\ tracer.direction = UnitDirection(<<1, 0, 0>>)
    /\ 6 * Quarter <= tracer.max_radius
    /\ tracer.max_radius <= I32_ROOT * Quarter

\* C15: whenever the loop of run is about to test a cell, current_chunk is
\* the floor-division key of current_cube; and the trace of TwoChunkExample
\* returns the voxel (16, 0, 0).
C15_ChunkKeyTracksCell ==
    /\ tracer.pc = "running" => tracer.current_chunk = chunk_id(tracer.current_cube)
    /\ (Returned /\ TwoChunkExample)
           => tracer.result_cube = LookAt(<<16, 0, 0>>, <<-1, 0, 0>>)

\* The trace of TwoChunkExample has crossed into the chunk <<16, 0>> and
\* returned the voxel there.
C15_Witness ==
    /\ Returned
    /\ TwoChunkExample
    /\ tracer.current_chunk = <<16, 0>>
    /\ tracer.result_cube.some
    /\ tracer.result_cube.cube = <<16, 0, 0>>

\* The cell at world position pos is occupied: its chunk is resident, its
\* y lies in 0..255 and the cell array holds a cube there.
CellOccupied(pos) ==
    /\ chunk_id(pos) \in DOMAIN chunks
    /\ OccupiedAt(chunks[chunk_id(pos)].cubes, Local(chunk_id(pos), pos))

\* C16: a returned voxel is the last cell of the path and the only occupied
\* cell of the path; as long as no voxel is returned no cell of the path is
\* occupied (cells of chunks that are not resident and cells outside
\* 0 <= y < 256 count as empty).
C16_FoundIsFirstOccupied ==
    Traced =>
        /\ tracer.result_cube.some
               => /\ tracer.path # <<>>
                  /\ tracer.result_cube.cube = tracer.path[Len(tracer.path)]
        /\ \A i \in 1..Len(tracer.path) :
               CellOccupied(tracer.path[i])
                   <=> (tracer.result_cube.some /\ i = Len(tracer.path))

\* A trace that started below the Y range has returned a voxel after
\* walking through cells of other chunks or outside the range.
C16_Witness ==
    /\ Returned
    /\ tracer.result_cube.some
    /\ Len(tracer.path) >= 3
    /\ tracer.path[1][2] < 0

\* C17: a returned voxel lies within the radius: the squared distance of its
\* cell from the origin cell is at most ceil(max_radius)^2 (max_radius being
\* one whose ceiling squared fits i32).
C17_FoundWithinRadius ==
    (/\ Returned
     /\ tracer.result_cube.some
     /\ Abs(tracer.max_radius_i32) <= I32_ROOT)
        => magnitude2(Sub3(tracer.result_cube.cube, tracer.origin_cube_i32))
               <= tracer.max_radius_i32 * tracer.max_radius_i32

\* Exactly one component of v is +1 or -1 and the others are 0.
UnitAxisVector(v) == magnitude2(v) = 1

\* C18: a returned voxel comes with the direction (previous cell of the
\* path - voxel), a unit axis-aligned vector, so that voxel + direction is
\* the empty cell visited just before the voxel.
C18_IncomingIsUnitStep ==
    (Returned /\ tracer.result_cube.some)
        => LET n == Len(tracer.path)
               found == tracer.result_cube
           IN  /\ UnitAxisVector(found.direction)
               /\ n >= 2
               /\ found.direction = Sub3(tracer.path[n - 1], found.cube)
               /\ ~CellOccupied(Add3(found.cube, found.direction))

\* What the next iteration of the loop of run depends on, besides the
\* world: every field of the tracer but the path it appends to.
LoopState(t) == [t EXCEPT !.path = <<>>]

\* C19: a trace along a nonzero direction terminates.  The loop of run is
\* deterministic and the world does not change under it, so an iteration
\* that leaves the trace running with the loop state it started from is
\* followed by the same iteration for ever: no such iteration occurs.
C19_EveryIterationProgresses ==
    [][(/\ tracer.pc = "running"
        /\ tracer'.pc = "running"
        /\ panic' = "none"
        /\ tracer.direction.v # <<0, 0, 0>>)
           => LoopState(tracer') # LoopState(tracer)]_vars

\* Cell q is cell p moved by one unit along one axis, in the step
\* direction inc of that axis.
OneStep(p, q, inc) ==
    \E a \in 1..3 : inc[a] # 0 /\ q = [p EXCEPT ![a] = @ + inc[a]]

\* C20: the path of a returned trace starts with the rounded origin cell,
\* each cell is followed by the cell one unit further along one axis in
\* that axis's step direction (the sign of the direction's component), and
\* no cell occurs twice.
C20_PathIsMonotoneWalk ==
    Returned =>
        LET path == tracer.path
            n == Len(path)
        IN  /\ n >= 1
            /\ path[1] = <<round(tracer.origin[1]), round(tracer.origin[2]),
                           round(tracer.origin[3])>>
            /\ (tracer.direction.scale = "unit" /\ tracer.direction.v # <<0, 0, 0>>)
                   => tracer.cube_inc_dir = tracer.direction.v
            /\ \A i \in 1..(n - 1) : OneStep(path[i], path[i + 1], tracer.cube_inc_dir)
            /\ \A i, j \in 1..n : i # j => path[i] # path[j]

\* A returned trace has stepped along two axes and ended in another chunk
\* than it started in.
C20_Witness ==
    /\ Returned
    /\ Len(tracer.path) >= 4
    /\ tracer.path[Len(tracer.path)][1] # tracer.path[1][1]
    /\ tracer.path[Len(tracer.path)][3] # tracer.path[1][3]
    /\ chunk_id(tracer.path[Len(tracer.path)]) # chunk_id(tracer.path[1])

\* The counter c is a distance (not NaN) and no counter of cs that is a
\* distance is smaller.
MinimalAmong(c, cs) ==
    /\ c.kind # "nan"
    /\ \A b \in 1..3 : ~FLess(cs[b], c)

\* The step from the current state to the next one is an iteration of the
\* loop of run that called move_to_next_cube: a cell was pushed and no
\* voxel was found in it.
MovedOn ==
    /\ tracer.pc = "running"
    /\ Len(tracer'.path) = Len(tracer.path) + 1
    /\ ~tracer'.result_cube.some

\* The iteration advanced axis a: the cell moved by the axis's step and the
\* axis's counter took its per-step distance, the other two axes kept
\* their cell coordinate and counter.
Advanced(a) ==
    /\ tracer'.current_cube =
           [tracer.current_cube EXCEPT ![a] = @ + tracer.cube_inc_dir[a]]
    /\ tracer'.t_next_cube =
           [tracer.t_next_cube EXCEPT ![a] = FAdd(@, tracer.dt[a])]

\* C21: every advance of a trace along a nonzero direction is made on an
\* axis whose counter is a distance and minimal among the three, adds the
\* axis's per-step distance to it and leaves the other counters unchanged.
C21_AdvancesMinimalAxis ==
    [][(MovedOn /\ tracer.direction.v # <<0, 0, 0>>)
           => \E a \in 1..3 :
                  /\ MinimalAmong(tracer.t_next_cube[a], tracer.t_next_cube)
                  /\ Advanced(a)]_vars

\* The axes that tie for the smallest counter as the tracer compares them:
\* no counter is < theirs.
Tied == {a \in 1..3 : \A b \in 1..3 : ~FLess(tracer.t_next_cube[b], tracer.t_next_cube[a])}

\* The first axis of S in the order of the sequence order.
FirstOf(S, order) ==
    IF order[1] \in S THEN order[1] ELSE IF order[2] \in S THEN order[2] ELSE order[3]

\* C22 as stated: when two or more axes tie for the smallest counter, the
\* one advanced is the first of them in the order X, Z, Y.
C22_TieBreakXZY ==
    [][(MovedOn /\ tracer.direction.v # <<0, 0, 0>> /\ Cardinality(Tied) >= 2)
           => Advanced(FirstOf(Tied, <<1, 3, 2>>))]_vars

\* C22, amended: when two or more axes tie for the smallest counter, the
\* one advanced is the first of them in the order Z, Y, X.
C22_TieBreakZYX ==
    [][(MovedOn /\ tracer.direction.v # <<0, 0, 0>> /\ Cardinality(Tied) >= 2)
           => Advanced(FirstOf(Tied, <<3, 2, 1>>))]_vars

\* The trace from (0, 0, 0) along (-1, 0, -1), whose x and z counters tie
\* at the first step, has advanced z.
C22_Witness ==
    /\ Traced
    /\ tracer.origin = <<0, 0, 0>>
    /\ tracer.direction = UnitDirection(<<-1, 0, -1>>)
    /\ Len(tracer.path) >= 2
    /\ tracer.path[2] = <<0, 0, -1>>

\* C23: in a trace along a nonzero direction, an axis whose direction
\* component is 0 has step 0 and the counter +infinity, and the current
\* cell keeps the origin cell's coordinate on that axis.
C23_ZeroAxisNeverMoves ==
    (Traced /\ tracer.direction.v # <<0, 0, 0>>)
        => \A a \in 1..3 :
               tracer.direction.v[a] = 0
                   => /\ tracer.cube_inc_dir[a] = 0
                      /\ tracer.t_next_cube[a] = Infinity
                      /\ tracer.current_cube[a] = tracer.origin_cube_i32[a]

----------------------------------------------------------------------------
(* Properties of the chunk map and of the cell array *)

\* No resident key is lost by the step and every resident key is a pair of
\* multiples of 16.
KeysKept ==
    /\ DOMAIN chunks \subseteq DOMAIN chunks'
    /\ \A k \in DOMAIN chunks' : k[1] % 16 = 0 /\ k[2] % 16 = 0

\* After the step the chunk of the edit is resident, dirty and holds
\* nothing beside the cell of the edit, and the world is dirty.
CreatedForEdit ==
    /\ last'.key \in DOMAIN chunks'
    /\ chunks'[last'.key].start = last'.key
    /\ chunks'[last'.key].dirty
    /\ DOMAIN chunks'[last'.key].cubes
           \subseteq {chunk_pos_to_index(Local(last'.key, last'.pos))}
    /\ world_dirty'

\* C25 as stated: no step of place, remove or fill removes a resident key,
\* every key is a pair of multiples of 16, and every place or remove
\* addressed to a chunk that is not resident creates it.
C25_EditCreatesChunk ==
    [][/\ KeysKept
       /\ (last'.op \in {"push", "remove"} /\ ~last'.resident) => CreatedForEdit]_vars

\* C25, amended: as stated, for every place and for every remove at a
\* position with y >= 0.
C25_EditAtHeightCreatesChunk ==
    [][/\ KeysKept
       /\ (/\ last'.op \in {"push", "remove"}
           /\ ~last'.resident
           /\ (last'.op = "remove" => last'.pos[2] >= 0)) => CreatedForEdit]_vars

\* A remove has created a second chunk.
C25_Witness ==
    /\ last.op = "remove"
    /\ ~last.resident
    /\ panic = "none"
    /\ last.key \in DOMAIN chunks
    /\ chunks[last.key].cubes = <<>>
    /\ Cardinality(DOMAIN chunks) >= 2

\* C26: a position of the chunk's extent converts to an index below
\* 16 * 256 * 16 that converts back to the position, and an index below
\* 16 * 256 * 16 converts to a position of the extent that converts back to
\* the index.
C26_IndexMappingsAreInverse ==
    /\ last.op = "to_index"
           => /\ 0 <= last.index /\ last.index < CUBES_LEN
              /\ last.back = last.pos
    /\ last.op = "to_pos"
           => /\ InExtent(last.pos)
              /\ last.back = last.index

\* The last cell of the chunk has been converted to the last index.
C26_Witness ==
    /\ last.op = "to_index"
    /\ last.pos = <<15, 255, 15>>
    /\ last.index = CUBES_LEN - 1
    /\ last.back = last.pos

\* The world positions of the occupied cells of the chunk.
ChunkVoxels(chunk) ==
    {Add3(index_to_chunk_pos(i), <<chunk.start[1], 0, chunk.start[2]>>)
         : i \in DOMAIN chunk.cubes}

\* The distance from p to centre is at most radius.
DistanceAtMost(p, centre, radius) ==
    \/ radius.kind = "inf"
    \/ /\ radius.kind = "fin"
       /\ radius.n >= 0
       /\ 16 * magnitude2(Sub3(p, centre)) <= radius.n * radius.n

\* C27: cubes_around(pos, radius) does not panic and returns, each once,
\* exactly the occupied cells of the chunk whose distance to pos is at most
\* radius, for centres inside and outside the chunk.
C27_CubesAroundIsExact ==
    last.op = "around"
        => /\ panic = "none"
           /\ {last.cubes[n] : n \in DOMAIN last.cubes}
                 = {p \in ChunkVoxels(chunks[last.key]) :
                        DistanceAtMost(p, last.pos, last.radius)}
           /\ \A i, j \in DOMAIN last.cubes : i # j => last.cubes[i] # last.cubes[j]

----------------------------------------------------------------------------
(* Properties of an edit as a change of the cell array *)

\* The directions i in which the cell at index idx is the in-chunk
\* neighbour of chunk position cp.
NeighbourSides(cp, idx) ==
    {i \in 0..5 : /\ InExtent(around_cubes(cp)[i])
                  /\ chunk_pos_to_index(around_cubes(cp)[i]) = idx}

\* C28: a place or remove at an in-footprint position P changes no cell
\* but P, except that of the occupied in-chunk cell next to P in direction
\* i it may change the one mask bit i XOR 1; occupancy, colour and every
\* other bit of every other cell stay as they were.
C28_EditTouchesOnlyNeighbourBits ==
    (LastIsEdit /\ InExtent(LastLocal)) =>
        /\ DOMAIN LastCubes \ {chunk_pos_to_index(LastLocal)}
               = DOMAIN last.pre \ {chunk_pos_to_index(LastLocal)}
        /\ \A idx \in DOMAIN last.pre \ {chunk_pos_to_index(LastLocal)} :
               /\ LastCubes[idx].color = last.pre[idx].color
               /\ \A b \in 0..5 :
                      LastCubes[idx].sides_present[b] # last.pre[idx].sides_present[b]
                          => \E i \in NeighbourSides(LastLocal, idx) : b = Xor1(i)

\* The chunk after the mesh was rebuilt: Chunk::mesh clears dirty.
Cleaned(chunk) == [chunk EXCEPT !.dirty = FALSE]

\* C29: on every chunk the edits leave, a place that returns, repeated
\* with the same colour, and a remove that returns, repeated, return again
\* and leave the cells and masks of the first call; the repetition only
\* sets the chunk's dirty flag and the world's again.
C29_EditsAreIdempotent ==
    panic = "none" =>
        \A key \in DOMAIN chunks, pos \in ChunkSites :
            /\ \A color \in Colours :
                   LET once == push_cube(chunks[key], pos, color)
                       twice == push_cube(Cleaned(once.chunk), pos, color)
                   IN  once.panic = "none"
                           => /\ twice.panic = "none"
                              /\ twice.chunk = once.chunk
                              /\ twice.set_world
            /\ LET once == remove_cube(chunks[key], pos)
                   twice == remove_cube(Cleaned(once.chunk), pos)
               IN  once.panic = "none"
                       => /\ twice.panic = "none"
                          /\ twice.chunk = once.chunk
                          /\ twice.set_world

\* A place has repeated the colour its cell already held, next to an
\* occupied cell, and left every cell as it was.
C29_Witness ==
    /\ last.op = "push"
    /\ panic = "none"
    /\ InExtent(LastLocal)
    /\ chunk_pos_to_index(LastLocal) \in DOMAIN last.pre
    /\ last.pre[chunk_pos_to_index(LastLocal)].color = last.color
    /\ LastCubes = last.pre
    /\ \E i \in 0..5 : OccupiedAt(LastCubes, around_cubes(LastLocal)[i])

----------------------------------------------------------------------------
(* Properties of the engine's placement *)

\* C30: the position place_at_looking_at hands to World::push_cube, the
\* found cube plus the direction of the look-at result, has 0 <= y < 256,
\* and the push returns without a panic.
C30_PlacementIsInFootprint ==
    (last.op = "push" /\ tracer.pc = "done") =>
        /\ last.pos = Add3(tracer.result_cube.cube, tracer.result_cube.direction)
        /\ 0 <= last.pos[2] /\ last.pos[2] < 256
        /\ panic = "none"

----------------------------------------------------------------------------
(* Properties of the frame protocol of the display *)

\* C31: a begin_frame on a non-empty display that follows a begin_frame
\* failed with AcquireOutOfDate, with no end_frame in between, does not
\* return MultipleBeginFrame.
C31_RetryAfterOutOfDate ==
    (last.op = "begin_frame" /\ last.was_retry /\ ~last.was_open
         /\ ~last.pre.window_empty)
        => last.result # "MultipleBeginFrame"

\* C32: a begin_frame called while a frame is open (a begin_frame returned
\* Ok and no end_frame came since) does not return Ok, and returns
\* MultipleBeginFrame on a non-empty display; and the first begin_frame on a
\* non-empty display after an end_frame, whatever the flush answered, does
\* not return MultipleBeginFrame.
C32_FrameProtocol ==
    last.op = "begin_frame" =>
        /\ last.was_open =>
               /\ last.result # "Ok"
               /\ ~last.pre.window_empty => last.result = "MultipleBeginFrame"
        /\ (~last.was_open /\ ~last.was_retry /\ ~last.pre.window_empty)
               => last.result # "MultipleBeginFrame"

\* A begin_frame was refused while a frame was open, on a display whose
\* earlier frames were begun, ended and begun again on a new swapchain.
C32_Witness ==
    /\ last.op = "begin_frame"
    /\ last.was_open
    /\ last.result = "MultipleBeginFrame"
    /\ display.swapchain > 0

\* C33: a begin_frame never clears a pending recreate request unless its
\* recreation succeeded: when the flag was set before a begin_frame and is
\* clear after it, the swapchain is a new one.
C33_RecreateStaysPending ==
    (last.op = "begin_frame" /\ last.pre.recreate_swapchain
         /\ ~display.recreate_swapchain)
        => display.swapchain # last.pre.swapchain

----------------------------------------------------------------------------
(* Properties of the engine's event handler *)

\* C34: no MouseInput event, whatever its button and state, brings
\* handle_events to its unreachable!() arm.
C34_UnreachableIsNotReached == panic # "unreachable"

----------------------------------------------------------------------------
(* Properties of the mirrored buffer *)

\* C35: after from_iter and any calls of update_data, update_buffers,
\* move_to_next and current_buffer that did not fail to allocate, the
\* current index is below the number of mirrors, neither move_to_next nor
\* current_buffer has panicked, and a move_to_next has stepped to the next
\* mirror, from the last back to the first.
C35_CurrentIndexInRange ==
    panic \notin {"assert", "unwrap"} =>
        /\ panic = "none"
        /\ mirrored.current_buffer < mirrored.buffers
        /\ last.op = "move_to_next" =>
               mirrored.current_buffer
                   = IF last.pre.current_buffer + 1 = mirrored.buffers
                     THEN 0
                     ELSE last.pre.current_buffer + 1

----------------------------------------------------------------------------
(* Properties of the camera *)

\* The angle a is a number of degrees between lo and hi.
WithinDegrees(a, lo, hi) == a.kind = "fin" /\ lo <= a.n /\ a.n <= hi

\* C36: the pitch is within [-89, 89] degrees and the field of view within
\* [1, 179] degrees after every call, and a zoom leaves the
\* perspective-dirty flag set exactly when it was set before or the field
\* of view has changed.
C36_AnglesStayClamped ==
    /\ WithinDegrees(camera.pitch, -89, 89)
    /\ WithinDegrees(camera.fov, 1, 179)
    /\ last.op = "zoom" =>
           camera.perspective_dirty
               = (last.pre.perspective_dirty \/ camera.fov # last.pre.fov)

====
